---- MODULE Spec2Model ----
(***************************************************************************)
(* The AngelScript binding layer of src/src/angelscript_system.cpp:        *)
(* script components, their script instances (VM module + VM context +     *)
(* resource link + flags), the resource load-state observer, and the       *)
(* single-slot function-call builder.                                       *)
(*                                                                         *)
(* Slot indices are the code's 0-based scr_index; the sequence holding the  *)
(* instances is 1-based, so slot scr_index is element scr_index + 1.        *)
(***************************************************************************)
EXTENDS Integers, Sequences, FiniteSets, TLC

\* ------------------------------------------------------------------ bounds
MaxScripts == 2
MaxParams == 1
MaxProps == 2
MaxFileLen == 4
MaxHeld == 1
MaxArgs == 3
MaxHandles == 3
MaxGets == 3
MaxPlugins == 3

\* ------------------------------------------------------- program constants
\* nullptr, as a module handle and as a context handle
NullH == 0 - 1
\* a handle to a module that has been discarded
Dangling == 0 - 2
\* the default StaticString<64>, ""
EmptyName == 0
InitialCapacity == 4
IntMax == 2147483647

EntitySeq == <<"e1", "e2">>
Entities == {EntitySeq[k] : k \in 1..Len(EntitySeq)}
\* the entity the editing operations are called on; the other one is reached
\* through the entity map of deserialize
EditEntities == {"e1"}
NoEntity == "INVALID_ENTITY"
Paths == {"a.as", "b.as"}
NoPath == ""
CallPath == "a.as"
Sources == {"noadd", "bad", "awake"}
\* the sources of the scripts the editor callbacks meet
EditorSources == {"awake", "gui"}
CallSources == {"bad", "awake"}
NoSource == ""
FunctionNames == {"update", "nofunc"}
PropertyNames == {"speed", "target"}
PropertyValues == {"5"}
\* the texts the property store is given, and the names it is asked for
StoredTexts == {"5", "7"}
AskedNames == PropertyNames \cup {"unset"}
\* the code execute is given
ExecuteCodes == {"void main(){ }", "bad"}
\* and more of them: one the VM does not take, one without main(), one whose
\* main() divides by zero
ExecuteInputs ==
  ExecuteCodes \cup {"noadd", "plain", "void main(){ int z = 0; z = 1 / z; }"}
PropertyTypes == {"BOOLEAN", "FLOAT", "INT", "ENTITY", "RESOURCE", "STRING", "COLOR", "ANY"}
InlineSources == {"void main(){ }"}

\* enum class AngelScriptModuleVersion
HASH64 == 0
INLINE_SCRIPT == 1
LATEST == 2
Versions == HASH64..LATEST

\* StableHash(name): the 64-bit hash of the text of a property name
NameHash(name) ==
  CASE name = "speed" -> 7001
    [] name = "target" -> 7002
    [] OTHER -> 7000

\* EntityMap: from the entity ids of the saved world to those of this world
EntityMaps ==
  {[e \in Entities |-> e],
   [e \in Entities |-> IF e = "e1" THEN "e2" ELSE "e1"]}

\* Module names and handles. A name "ScriptInstance<n>" is written as a number
\* from 1 on and "" as EmptyName; only whether two names are equal ever matters.
\* The engine holds at most one module per name, so a handle to a module of the
\* engine is written as that module's name, a handle to a discarded module as
\* Dangling. Context handles are numbers from 1 on. After every operation the
\* names and the context handles are renumbered in the order the slots mention
\* them (Canonical), so that two states that differ only in which numbers
\* stand for which names and addresses are one state.
\* There are enough of both for every slot and inline component of every entity
\* and one object under construction.
Names == 0..(Len(EntitySeq) * (MaxScripts + 1) + 1)
CtxIds == 1..(Len(EntitySeq) * (MaxScripts + 1) + 1)

\* What the VM makes of a source text: whether AddScriptSection accepts it,
\* whether Build succeeds on it, and the functions a successful build defines.
SourceAdds(s) == s # "noadd"
SourceBuilds(s) ==
  s \in {"plain", "awake", "gui", "void main(){ }", "void main(){ int z = 0; z = 1 / z; }",
         "tool_a", "tool_b", "noname", "noinit"}
\* whether a function of the source, once called, runs to its end
\* (asEXECUTION_FINISHED) rather than raising a script exception
SourceFinishes(s) == s # "void main(){ int z = 0; z = 1 / z; }"
SourceFuncs(s) ==
  CASE s = "awake" -> {"awake", "update"}
    [] s = "plain" -> {"update"}
    [] s = "gui" -> {"onGUI", "onDrawGizmo"}
    [] s = "tool_a" -> {"initPlugin", "getPluginName", "gui", "windowMenuAction"}
    [] s = "tool_b" -> {"initPlugin", "getPluginName", "gui"}
    [] s = "noname" -> {"initPlugin", "gui"}
    [] s = "noinit" -> {"getPluginName", "gui"}
    [] s = "void main(){ int z = 0; z = 1 / z; }" -> {"main"}
    [] s = "void main(){ }" -> {"main"}
    [] OTHER -> {}

Min(S) == CHOOSE x \in S : \A y \in S : x <= y

\* F of the value of v: v is computed once, then F is applied to that value
\* (sequencing of two statements of the code).
Then(v, F(_)) == CHOOSE r \in {F(x) : x \in {v}} : TRUE

\* ------------------------------------------------------------------- state
VARIABLES
  m_scripts,        \* HashMap<EntityRef, ScriptComponent*>
  m_inline_scripts, \* HashMap<EntityRef, InlineScriptComponent>
  modules,          \* the VM engine's script modules, by name
  contexts,         \* the VM engine's contexts, by handle
  resources,        \* the script resources of the resource manager, by path
  m_function_call,  \* the single FunctionCall builder
  world_components, \* the World's record of the <<entity, component type>> it was told of
  files,            \* the script source files of the file system, by path
  compiled,         \* the compiled resources the asset compiler wrote, by path
  as_scripts,       \* the ASScript objects of the resource manager, by path, in the
                    \* detail of as_script.cpp (dependencies, source bytes)
  as_methods,       \* the component methods registered with the VM engine
  invoked,          \* the last call the component-method trampoline made
  m_as_resources,   \* HashMap<int, Resource*> of the system: pairs <<handle, path>>
  m_last_as_resource_idx, \* the last handle addASResource gave out (u32)
  system,           \* "alive", or "destroyed" once ~AngelScriptSystemImpl has run
  m_strings,        \* HashMap<StableHash, StringData*> of the StringFactory
  plugin_modules,   \* the VM engine's modules the editor plugins are built in, by name
  plugin_contexts,  \* the VM engine's contexts the editor plugins run in, by handle
  m_plugins,        \* Array<StudioAngelScriptPlugin*> of the StudioAppPlugin
  studio,           \* "starting", "running" once init has run, "destroyed"
  m_property_names, \* HashMap<StableHash, String> of the module: pairs <<hash, name>>
  editor_calls,     \* the calls the last editor callback made on the module, in order
  string_calls,     \* per content: the GetStringConstant calls made for it and the
                    \* ReleaseStringConstant calls that succeeded on it
  user_refs,        \* the references on ASScript objects held by users of the manager
  stream,           \* the OutputMemoryStream serialize wrote, until it is loaded
  fault,            \* "none", "assert" (a failed ASSERT), "undefined" (undefined behaviour)
  last              \* the last operation: its name, its return value, the awake calls
                    \* it made, the calls the builder executed in it, the components it
                    \* announced to the world, the stream items it left unread, the calls
                    \* its instance destructors made

\* the asset pipeline of the scripts: files, compiled resources, ASScript objects
assets == <<files, compiled, as_scripts, user_refs>>

\* the binding of reflected component methods to the VM
bindings == <<as_methods, invoked>>

\* the resources scripts hold through the system's handles
handles == <<m_as_resources, m_last_as_resource_idx, system>>

\* the string constants of the VM
factory == <<m_strings, string_calls>>

\* the state beside the module, the assets, the bindings and the handles
\* the trace of the editor callbacks
editor == <<editor_calls>>

\* the names the module knows its properties by
names == <<m_property_names>>

\* the editor-extension plugins and the VM objects they use
extensions == <<plugin_modules, plugin_contexts, m_plugins, studio>>

extras == <<factory, editor, names, extensions>>

\* the state of the system beside the module, the assets and the bindings
side == <<handles, extras>>

vars ==
  <<m_scripts, m_inline_scripts, modules, contexts, resources, m_function_call,
    world_components, stream, fault, last, files, compiled, as_scripts, user_refs,
    as_methods, invoked, m_as_resources, m_last_as_resource_idx, system,
    m_strings, string_calls, editor_calls, m_property_names,
    plugin_modules, plugin_contexts, m_plugins, studio>>

\* ---------------------------------------------------------------- records
NoComponent == [exists |-> FALSE, m_entity |-> NoEntity, m_scripts |-> <<>>, m_capacity |-> 0]

\* no inline component; an InlineScriptComponent is its ScriptEnvironment
NoInline ==
  [exists |-> FALSE, m_entity |-> NoEntity, m_source |-> NoSource,
   m_script_module |-> NullH, m_script_context |-> NullH]

BlankModule == [alive |-> FALSE, sections |-> <<>>, code |-> <<>>, built |-> "none"]

BlankResource == [state |-> "EMPTY", ref_count |-> 0, cb |-> <<>>, source |-> NoSource]

InitFunctionCall ==
  [world |-> "nullptr", parameter_count |-> 0, module |-> NullH, context |-> NullH,
   is_in_progress |-> FALSE]

\* The machine state the handlers work on, so that a handler and every call it
\* makes compose as functions: w.tmp is the object under construction,
\* w.h the handle a VM call returned, w.ub whether undefined behaviour was met,
\* w.awake the slots <<entity, scr_index>> whose awake was executed, in order,
\* w.exec the function calls the builder prepared and executed on a context,
\* w.created the <<entity, component type>> given to World::onComponentCreated,
\* w.in what is left to read of the InputMemoryStream,
\* w.teardown the calls the destructors of live instances made, in order.
World ==
  [scripts |-> m_scripts, inl |-> m_inline_scripts, mods |-> modules, ctxs |-> contexts,
   res |-> resources, fc |-> m_function_call, attached |-> world_components,
   stream |-> stream, awake |-> <<>>,
   exec |-> <<>>, created |-> <<>>, in |-> <<>>, teardown |-> <<>>, ub |-> FALSE,
   h |-> NullH, tmp |-> <<>>]

Slots(w, e) == w.scripts[e].m_scripts

RECURSIVE AllSlotsFrom(_, _)
\* the instances of every component, entity by entity, slot by slot
AllSlotsFrom(w, k) ==
  IF k > Len(EntitySeq) THEN <<>>
  ELSE Slots(w, EntitySeq[k]) \o AllSlotsFrom(w, k + 1)

AllSlots(w) == AllSlotsFrom(w, 1)

Range(s) == {s[k] : k \in 1..Len(s)}

\* ------------------------------------------------------------ the VM engine
\* asIScriptEngine::GetModule(name, asGM_CREATE_IF_NOT_EXISTS): the module of
\* that name if the engine has one, else a new module. The handle is left in w.h.
GetModule(w, name) ==
  IF w.mods[name].alive
    THEN [w EXCEPT !.h = name]
    ELSE [w EXCEPT !.h = name, !.mods[name] = [BlankModule EXCEPT !.alive = TRUE]]

\* Every handle equal to h, wherever it is held, now dangles.
Dangle(x, h) == IF x = h THEN Dangling ELSE x

\* asIScriptModule::Discard(): the engine drops the module, and every handle to
\* it dangles. Discard through a dangling handle is undefined behaviour.
Discard(w, h) ==
  IF h = Dangling THEN [w EXCEPT !.ub = TRUE]
  ELSE [w EXCEPT
          !.mods[h] = BlankModule,
          !.fc.module = Dangle(@, h),
          !.inl = [e \in Entities |-> [w.inl[e] EXCEPT !.m_script_module = Dangle(@, h)]],
          !.scripts = [e \in Entities |->
             [w.scripts[e] EXCEPT !.m_scripts =
                [i \in 1..Len(w.scripts[e].m_scripts) |->
                   [w.scripts[e].m_scripts[i] EXCEPT !.m_script_module = Dangle(@, h)]]]]]

\* asIScriptModule::AddScriptSection: the section waits for the next Build.
AddScriptSection(w, h, source) ==
  [w EXCEPT !.mods[h].sections = Append(@, source)]

\* asIScriptModule::Build(): resets the module, compiles the waiting sections.
Build(w, h) ==
  LET secs == w.mods[h].sections
      ok == \A k \in 1..Len(secs) : SourceBuilds(secs[k])
  IN [w EXCEPT !.mods[h].sections = <<>>,
               !.mods[h].code = IF ok THEN secs ELSE <<>>,
               !.mods[h].built = IF ok THEN "ok" ELSE "failed"]

ModuleFuncs(m) == UNION {SourceFuncs(m.code[k]) : k \in 1..Len(m.code)}

\* asIScriptEngine::CreateContext(): a new context, at an address nothing
\* refers to; the handle is left in w.h.
CreateContext(w) ==
  LET held == {x.m_script_context : x \in Range(AllSlots(w))} \cup {w.fc.context}
                \cup {w.inl[e].m_script_context : e \in Entities}
      fresh == Min({c \in CtxIds : w.ctxs[c] = "free" /\ c \notin held})
  IN [w EXCEPT !.h = fresh, !.ctxs[fresh] = "live"]

\* asIScriptContext::Release() of the only reference: the context is destroyed.
\* Releasing a context that is already released is undefined behaviour.
Release(w, c) ==
  IF w.ctxs[c] = "live"
    THEN [w EXCEPT !.ctxs[c] = "released"]
    ELSE [w EXCEPT !.ub = TRUE, !.ctxs[c] = "released twice"]

\* ------------------------------------------------------ the script resource
\* DelegateList::unbind: the first delegate equal to the one given is removed
\* by swap-and-pop; nothing happens when there is none.
Unbind(cb, e) ==
  LET hits == {k \in 1..Len(cb) : cb[k] = e}
  IN IF hits = {} THEN cb
     ELSE LET k == Min(hits)
              n == Len(cb)
          IN [j \in 1..(n - 1) |-> IF j = k THEN cb[n] ELSE cb[j]]

\* Resource::decRefCount(): the last reference unloads the resource (doUnload:
\* ASScript::unload clears the source, the state goes to EMPTY). An observer
\* still bound at that point would be called from inside the release.
DecRefCount(w, r) ==
  LET res == w.res[r]
  IN IF res.ref_count = 0 THEN [w EXCEPT !.ub = TRUE]
     ELSE IF res.ref_count > 1 THEN [w EXCEPT !.res[r].ref_count = @ - 1]
     ELSE [w EXCEPT !.res[r] = [BlankResource EXCEPT !.cb = res.cb],
                    !.ub = (w.ub \/ res.cb # <<>>)]

\* ResourceManagerHub::load<ASScript>(path): one more reference on the resource
\* of that path (deduplicated by path); its bytes arrive later.
Load(w, r) == [w EXCEPT !.res[r].ref_count = @ + 1]

\* ------------------------------------------------------ the script instance
Flags == {"ENABLED", "LOADED", "MOVED_FROM"}

\* StaticString<64>("ScriptInstance", module_counter++): module_counter is a
\* static that only grows, so the name is one no instance was constructed with
\* before; here, the least name that no instance and no module bears.
NewInstanceName(w) ==
  Min(Names \ ({EmptyName} \cup {x.m_module_name : x \in Range(AllSlots(w))}
                \cup {n \in Names : w.mods[n].alive}))

\* ScriptInstance::ScriptInstance(cmp, allocator); the new instance is left in w.tmp.
ScriptInstanceCtorDisabled(w, e) ==
  LET name == NewInstanceName(w)
      Make(w1, w2) ==
        [w2 EXCEPT !.tmp =
           [m_cmp |-> e, m_script |-> NoPath, m_script_module |-> w1.h,
            m_script_context |-> w2.h, m_module_name |-> name,
            m_properties |-> <<>>, m_flags |-> {}]]
  IN Then(GetModule(w, name),
          LAMBDA w1 : Then(CreateContext(w1), LAMBDA w2 : Make(w1, w2)))

ScriptInstanceCtor(w, e) ==
  LET name == NewInstanceName(w)
      Make(w1, w2) ==
        [w2 EXCEPT !.tmp =
           [m_cmp |-> e, m_script |-> NoPath, m_script_module |-> w1.h,
            m_script_context |-> w2.h, m_module_name |-> name,
            m_properties |-> <<>>, m_flags |-> {"ENABLED"}]]
  IN Then(GetModule(w, name),
          LAMBDA w1 : Then(CreateContext(w1), LAMBDA w2 : Make(w1, w2)))

\* a move constructor that does not take the properties of rhs
MoveCtorNewNoProperties(rhs) ==
  [m_cmp |-> rhs.m_cmp, m_script |-> rhs.m_script,
   m_script_module |-> rhs.m_script_module, m_script_context |-> rhs.m_script_context,
   m_module_name |-> EmptyName, m_properties |-> <<>>,
   m_flags |-> rhs.m_flags]

\* ScriptInstance(ScriptInstance&& rhs): m_module_name is not in the initializer
\* list, so the new object's name is the default StaticString, the empty name.
MoveCtorNew(rhs) ==
  [m_cmp |-> rhs.m_cmp, m_script |-> rhs.m_script,
   m_script_module |-> rhs.m_script_module, m_script_context |-> rhs.m_script_context,
   m_module_name |-> EmptyName, m_properties |-> rhs.m_properties,
   m_flags |-> rhs.m_flags]

\* A move that leaves rhs as it was, as a copy would.
MovedFromAsCopy(rhs) == rhs

\* What a move (constructor or assignment) leaves in rhs.
MovedFrom(rhs) ==
  [rhs EXCEPT !.m_script = NoPath, !.m_script_module = NullH,
              !.m_script_context = NullH, !.m_properties = <<>>,
              !.m_flags = @ \cup {"MOVED_FROM"}]

\* void operator=(ScriptInstance&& rhs): every member but m_module_name is taken
\* from rhs; what this held before is overwritten without being released.
MoveAssign(this, rhs) ==
  [this EXCEPT !.m_properties = rhs.m_properties,
               !.m_script_module = rhs.m_script_module,
               !.m_script_context = rhs.m_script_context,
               !.m_cmp = rhs.m_cmp, !.m_script = rhs.m_script,
               !.m_flags = rhs.m_flags]

\* a call the destructor of a live instance makes, added to w.teardown
Did(w, call) == [w EXCEPT !.teardown = Append(@, call)]

\* the destructor with the module discarded before the context is released
ScriptInstanceDtorModuleFirst(w, inst) ==
  IF "MOVED_FROM" \in inst.m_flags THEN w
  ELSE
    LET Unlink(x) ==
          IF inst.m_script # NoPath
            THEN DecRefCount(
                   Did([Did(x, "unbind") EXCEPT
                          !.res[inst.m_script].cb = Unbind(@, inst.m_cmp)], "decRefCount"),
                   inst.m_script)
            ELSE x
        ReleaseContext(x) ==
          IF inst.m_script_context # NullH
            THEN Release(Did(x, "Release"), inst.m_script_context) ELSE x
        DiscardModule(x) ==
          IF inst.m_script_module # NullH
            THEN Discard(Did(x, "Discard"), inst.m_script_module) ELSE x
    IN Then(Then(Then(Did(w, "~ScriptInstance"), Unlink), DiscardModule), ReleaseContext)

\* ScriptInstance::~ScriptInstance()
ScriptInstanceDtor(w, inst) ==
  IF "MOVED_FROM" \in inst.m_flags THEN w
  ELSE
    LET Unlink(x) ==
          IF inst.m_script # NoPath
            THEN DecRefCount(
                   Did([Did(x, "unbind") EXCEPT
                          !.res[inst.m_script].cb = Unbind(@, inst.m_cmp)], "decRefCount"),
                   inst.m_script)
            ELSE x
        ReleaseContext(x) ==
          IF inst.m_script_context # NullH
            THEN Release(Did(x, "Release"), inst.m_script_context) ELSE x
        DiscardModule(x) ==
          IF inst.m_script_module # NullH
            THEN Discard(Did(x, "Discard"), inst.m_script_module) ELSE x
    IN Then(Then(Then(Did(w, "~ScriptInstance"), Unlink), ReleaseContext), DiscardModule)

RECURSIVE DestroyEach(_, _)
\* the destructor of each of the moved-from objects a relocation leaves behind
DestroyEach(w, insts) ==
  IF insts = <<>> THEN w
  ELSE Then(ScriptInstanceDtor(w, Head(insts)), LAMBDA x : DestroyEach(x, Tail(insts)))

RECURSIVE DestroyAll(_, _, _)
\* Array<ScriptInstance>::~Array of e's component: the destructor of every
\* element, from slot i on.
DestroyAll(w, e, i) ==
  IF i > Len(Slots(w, e)) THEN w
  ELSE Then(ScriptInstanceDtor(w, Slots(w, e)[i]), LAMBDA x : DestroyAll(x, e, i + 1))

SetInst(w, e, i, inst) ==
  [w EXCEPT !.scripts[e].m_scripts =
     [k \in 1..Len(Slots(w, e)) |-> IF k = i THEN inst ELSE Slots(w, e)[k]]]

\* onScriptUnloaded without its last statement: LOADED is left as it was.
InstOnScriptUnloadedKeepsLoaded(w, e, i) ==
  LET inst == Slots(w, e)[i]
      w1 == IF inst.m_script_module # NullH THEN Discard(w, inst.m_script_module) ELSE w
  IN SetInst(w1, e, i, [inst EXCEPT !.m_script_module = NullH])

\* ScriptInstance::onScriptUnloaded on the instance in slot i of e's component
InstOnScriptUnloaded(w, e, i) ==
  LET inst == Slots(w, e)[i]
      w1 == IF inst.m_script_module # NullH THEN Discard(w, inst.m_script_module) ELSE w
  IN SetInst(w1, e, i,
       [inst EXCEPT !.m_script_module = NullH, !.m_flags = @ \ {"LOADED"}])

\* onScriptLoaded without the statement that sets LOADED after a successful build
InstOnScriptLoadedNoFlag(w, e, i) ==
  LET inst == Slots(w, e)[i]
  IN IF inst.m_script = NoPath THEN w
     ELSE
       LET w1 == IF inst.m_script_module # NullH THEN Discard(w, inst.m_script_module) ELSE w
           source == w.res[inst.m_script].source
           h == inst.m_module_name
           Built(w4) ==
             IF w4.mods[h].built # "ok" THEN w4
             ELSE
               LET w5 == SetInst(w4, e, i, [inst EXCEPT !.m_script_module = h])
               IN IF "awake" \in ModuleFuncs(w4.mods[h]) /\ inst.m_script_context # NullH
                    THEN [w5 EXCEPT !.awake = Append(@, <<e, i - 1>>)]
                    ELSE w5
           Got(w2) ==
             LET w3 == SetInst(w2, e, i, [inst EXCEPT !.m_script_module = w2.h])
             IN IF ~SourceAdds(source) THEN w3
                ELSE Then(Build(AddScriptSection(w3, h, source), h), Built)
       IN Then(GetModule(w1, inst.m_module_name), Got)

\* ScriptInstance::onScriptLoaded on the instance in slot i of e's component
InstOnScriptLoaded(w, e, i) ==
  LET inst == Slots(w, e)[i]
  IN IF inst.m_script = NoPath THEN w
     ELSE
       LET w1 == IF inst.m_script_module # NullH THEN Discard(w, inst.m_script_module) ELSE w
           source == w.res[inst.m_script].source
           h == inst.m_module_name   \* the handle GetModule answers
           Built(w4) ==
             IF w4.mods[h].built # "ok" THEN w4
             ELSE
               LET w5 == SetInst(w4, e, i,
                           [inst EXCEPT !.m_script_module = h,
                                        !.m_flags = @ \cup {"LOADED"}])
               IN IF "awake" \in ModuleFuncs(w4.mods[h]) /\ inst.m_script_context # NullH
                    THEN [w5 EXCEPT !.awake = Append(@, <<e, i - 1>>)]
                    ELSE w5
           Got(w2) ==
             LET w3 == SetInst(w2, e, i, [inst EXCEPT !.m_script_module = w2.h])
             IN IF ~SourceAdds(source) THEN w3
                ELSE Then(Build(AddScriptSection(w3, h, source), h), Built)
       IN Then(GetModule(w1, inst.m_module_name), Got)

RECURSIVE ForEachScript(_, _, _, _, _)
\* the loop of ScriptComponent::onScriptLoaded, from slot i on
ForEachScript(w, e, new_state, r, i) ==
  IF i > Len(Slots(w, e)) THEN w
  ELSE
    LET script == Slots(w, e)[i]
        w1 == IF script.m_script = NoPath \/ script.m_script # r THEN w
              ELSE IF new_state = "READY" THEN InstOnScriptLoaded(w, e, i)
              ELSE IF new_state = "EMPTY" THEN InstOnScriptUnloaded(w, e, i)
              ELSE w
    IN Then(w1, LAMBDA x : ForEachScript(x, e, new_state, r, i + 1))

\* ScriptComponent::onScriptLoaded(old_state, new_state, resource)
CmpOnScriptLoaded(w, e, new_state, r) == ForEachScript(w, e, new_state, r, 1)

RECURSIVE Invoke(_, _, _, _)
\* DelegateList::invoke: every bound delegate, in order
Invoke(w, cb, new_state, r) ==
  IF cb = <<>> THEN w
  ELSE Then(CmpOnScriptLoaded(w, Head(cb), new_state, r),
            LAMBDA x : Invoke(x, Tail(cb), new_state, r))

\* Resource::onLoaded<&ScriptComponent::onScriptLoaded>(&cmp): bind, and call at
\* once when the resource is READY already.
OnLoaded(w, r, e) ==
  LET w1 == [w EXCEPT !.res[r].cb = Append(@, e)]
  IN IF w.res[r].state = "READY" THEN CmpOnScriptLoaded(w1, e, "READY", r) ELSE w1

\* setPath with the link in the else branch of the unlink: relinking a linked
\* instance only unlinks it
SetPathUnlinksLinked(w, e, i, path) ==
  LET inst == Slots(w, e)[i]
  IN IF inst.m_script # NoPath
       THEN SetInst(DecRefCount([w EXCEPT !.res[inst.m_script].cb = Unbind(@, e)],
                                inst.m_script),
                    e, i, [inst EXCEPT !.m_script = NoPath])
     ELSE IF path = NoPath THEN w
     ELSE Then(SetInst(Load(w, path), e, i, [inst EXCEPT !.m_script = path]),
               LAMBDA x : OnLoaded(x, path, e))

\* setPath without the unbind of the observer of the resource it unlinks
SetPathKeepsBinding(w, e, i, path) ==
  LET inst == Slots(w, e)[i]
      w1 == IF inst.m_script # NoPath THEN DecRefCount(w, inst.m_script) ELSE w
      w2 == IF path = NoPath THEN w1 ELSE Load(w1, path)
      w3 == SetInst(w2, e, i, [inst EXCEPT !.m_script = path])
  IN IF path # NoPath THEN Then(w3, LAMBDA x : OnLoaded(x, path, e)) ELSE w3

\* AngelScriptModuleImpl::setPath(cmp, inst, path), inst being slot i of e's component
SetPath(w, e, i, path) ==
  LET inst == Slots(w, e)[i]
      w1 == IF inst.m_script # NoPath
              THEN DecRefCount(
                     [w EXCEPT !.res[inst.m_script].cb = Unbind(@, e)], inst.m_script)
              ELSE w
      w2 == IF path = NoPath THEN w1 ELSE Load(w1, path)
      w3 == SetInst(w2, e, i, [inst EXCEPT !.m_script = path])
  IN IF path # NoPath THEN Then(w3, LAMBDA x : OnLoaded(x, path, e)) ELSE w3

\* ------------------------------------------------- Array<ScriptInstance>
\* Array::emplaceAt(idx, cmp, allocator) for a type that is not trivially
\* copyable: when the array is full every element is relocated to a new buffer,
\* otherwise the elements from idx on are relocated one slot up; a relocation is
\* a move construction followed by the destructor of the moved-from element.
\* Then the new instance is constructed in place. idx is 0-based.
EmplaceAt(w, e, idx) ==
  LET arr == Slots(w, e)
      n == Len(arr)
      cap == w.scripts[e].m_capacity
      grow == (n = cap)
      newcap == IF ~grow THEN cap ELSE IF cap = 0 THEN InitialCapacity ELSE cap * 2
      first == IF grow THEN 1 ELSE idx + 1
      moved == [k \in 1..n |-> IF k >= first THEN MoveCtorNew(arr[k]) ELSE arr[k]]
      olds == [j \in 1..(n - first + 1) |-> MovedFrom(arr[first + j - 1])]
      w1 == DestroyEach([w EXCEPT !.scripts[e].m_scripts = moved,
                                  !.scripts[e].m_capacity = newcap], olds)
      Place(w2) ==
        [w2 EXCEPT !.scripts[e].m_scripts =
           [k \in 1..(n + 1) |->
              IF k <= idx THEN moved[k] ELSE IF k = idx + 1 THEN w2.tmp ELSE moved[k - 1]]]
  IN Then(ScriptInstanceCtor(w1, e), Place)

\* Array::swapAndPop(index): the element is destroyed; unless it was the last,
\* the last element is move-constructed into its place and then destroyed.
SwapAndPopLast(w, e, idx) ==
  LET n == Len(Slots(w, e))
      Pop(w1) == [w1 EXCEPT !.scripts[e].m_scripts = [k \in 1..(n - 1) |-> Slots(w1, e)[k]]]
  IN Then(ScriptInstanceDtor(w, Slots(w, e)[n]), Pop)

SwapAndPop(w, e, idx) ==
  LET n == Len(Slots(w, e))
      Pop(w1) ==
        LET arr == Slots(w1, e)
        IN IF idx + 1 = n
             THEN [w1 EXCEPT !.scripts[e].m_scripts = [k \in 1..(n - 1) |-> arr[k]]]
             ELSE ScriptInstanceDtor(
                    [w1 EXCEPT !.scripts[e].m_scripts =
                       [k \in 1..(n - 1) |->
                          IF k = idx + 1 THEN MoveCtorNew(arr[n]) ELSE arr[k]]],
                    MovedFrom(arr[n]))
  IN Then(ScriptInstanceDtor(w, Slots(w, e)[idx + 1]), Pop)

\* swap(a, b) on slots i and j (1-based): T tmp = move(a); a = move(b);
\* b = move(tmp); then tmp is destroyed.
SwapSlots(w, e, i, j) ==
  LET arr == Slots(w, e)
      tmp == MoveCtorNew(arr[i])
      a == MoveAssign(MovedFrom(arr[i]), arr[j])
      b == MoveAssign(MovedFrom(arr[j]), tmp)
  IN ScriptInstanceDtor(
       [w EXCEPT !.scripts[e].m_scripts =
          [k \in 1..Len(arr) |-> IF k = i THEN a ELSE IF k = j THEN b ELSE arr[k]]],
       MovedFrom(tmp))

\* ------------------------------------------------------------ steps
RECURSIVE Dedup(_)
\* s without the repetitions of its elements
Dedup(s) ==
  IF s = <<>> THEN <<>>
  ELSE LET r == Dedup(SubSeq(s, 1, Len(s) - 1))
       IN IF s[Len(s)] \in Range(r) THEN r ELSE Append(r, s[Len(s)])

RECURSIVE Ascending(_)
\* the elements of a set of numbers in ascending order
Ascending(S) == IF S = {} THEN <<>> ELSE <<Min(S)>> \o Ascending(S \ {Min(S)})

IndexOf(s, x) == Min({k \in 1..Len(s) : s[k] = x})

Keep(s, S) == SelectSeq(s, LAMBDA x : x \in S)

\* The same machine state with the module names and the context handles
\* renumbered in the order in which the slots, then the builder, then the
\* engine mention them. A released context that nothing refers to is gone.
Canonical(w) ==
  LET insts == AllSlots(w)
      n == Len(insts)
      realNames == Names \ {EmptyName}
      nameOrder ==
        Dedup(Keep([k \in 1..n |-> insts[k].m_module_name]
                     \o [k \in 1..n |-> insts[k].m_script_module]
                     \o [k \in 1..Len(EntitySeq) |-> w.inl[EntitySeq[k]].m_script_module]
                     \o <<w.fc.module>>
                     \o Ascending({x \in realNames : w.mods[x].alive}), realNames))
      ctxOrder ==
        Dedup(Keep([k \in 1..n |-> insts[k].m_script_context]
                     \o [k \in 1..Len(EntitySeq) |-> w.inl[EntitySeq[k]].m_script_context]
                     \o <<w.fc.context>>
                     \o Ascending({c \in CtxIds : w.ctxs[c] \notin {"free", "released"}}),
                   CtxIds))
      NewName(x) == IF x \in realNames THEN IndexOf(nameOrder, x) ELSE x
      NewCtx(c) == IF c \in CtxIds THEN IndexOf(ctxOrder, c) ELSE c
      NewInst(x) == [x EXCEPT !.m_module_name = NewName(@),
                              !.m_script_module = NewName(@),
                              !.m_script_context = NewCtx(@)]
  IN [w EXCEPT
        !.scripts = [e \in Entities |->
           [w.scripts[e] EXCEPT !.m_scripts =
              [i \in 1..Len(w.scripts[e].m_scripts) |-> NewInst(w.scripts[e].m_scripts[i])]]],
        !.inl = [e \in Entities |->
           [w.inl[e] EXCEPT !.m_script_module = NewName(@), !.m_script_context = NewCtx(@)]],
        !.mods = [x \in Names |->
           IF x = EmptyName THEN w.mods[x]
           ELSE IF x <= Len(nameOrder) THEN w.mods[nameOrder[x]]
           ELSE BlankModule],
        !.ctxs = [c \in CtxIds |->
           IF c <= Len(ctxOrder) THEN w.ctxs[ctxOrder[c]] ELSE "free"],
        !.fc.module = NewName(@),
        !.fc.context = NewCtx(@)]

\* The state after an operation that ran to its end. An operation that met
\* undefined behaviour ends the run: nothing is known of the program after it.
CommitWorld(w, op, ret) ==
  \E c \in {Canonical(x) : x \in {w}} :
     /\ m_scripts' = c.scripts
     /\ m_inline_scripts' = c.inl
     /\ modules' = c.mods
     /\ contexts' = c.ctxs
     /\ resources' = c.res
     /\ m_function_call' = c.fc
     /\ world_components' = c.attached
     /\ UNCHANGED <<assets, bindings>>
     /\ stream' = c.stream
     /\ fault' = IF c.ub THEN "undefined" ELSE "none"
     /\ last' = [op |-> op, ret |-> ret, awake |-> c.awake, exec |-> c.exec,
                 created |-> c.created, unread |-> Len(c.in), teardown |-> c.teardown]

Commit(w, op, ret) == CommitWorld(w, op, ret) /\ UNCHANGED side

\* ASSERT(false): the run ends there.
AssertFails(op) ==
  /\ fault' = "assert"
  /\ last' = [op |-> op, ret |-> "assert", awake |-> <<>>, exec |-> <<>>,
               created |-> <<>>, unread |-> 0, teardown |-> <<>>]
  /\ UNCHANGED <<m_scripts, m_inline_scripts, modules, contexts, resources, m_function_call,
                 world_components, stream>>
  /\ UNCHANGED <<assets, bindings, side>>

Running == fault = "none"

\* ------------------------------------------------------- the script asset
\* A source file and a compiled resource are sequences of bytes. A run of
\* bytes that the code reads as one stands as one code: the eight bytes of
\* "#include", the bytes of a path. HASH is a '#', a proper prefix of
\* "#include"; LETTER is any byte that is none of the others.
NUL == 0
NEWLINE == 10
SPACE == 32
QUOTE == 34
HASH == 35
NAME_A == 97
NAME_B == 98
LETTER == 120
INCLUDE == 1008

\* the paths the resource manager is asked for: the two scripts, and one that
\* stands for every other path
ScriptPaths == Paths \cup {"other.as"}

\* Path(StringView) of the bytes between the quotes of an #include, or of the
\* string read from a compiled resource
PathOf(text) ==
  CASE text = <<NAME_A>> -> "a.as"
    [] text = <<NAME_B>> -> "b.as"
    [] text = <<>> -> NoPath
    [] OTHER -> "other.as"

\* Path::c_str()
PathText(path) ==
  CASE path = "a.as" -> <<NAME_A>>
    [] path = "b.as" -> <<NAME_B>>
    [] path = NoPath -> <<>>
    [] OTHER -> <<LETTER>>

NoFile == [exists |-> FALSE, data |-> <<>>]

\* An ASScript as constructed, or unloaded with no reference left. loaded is
\* whether ASScript::load has run on it since it was constructed or unloaded.
BlankScript ==
  [ref_count |-> 0, loaded |-> FALSE, m_dependencies |-> <<>>, m_source_code |-> <<>>]

\* the ASScript objects, and whether undefined behaviour was met on them
Hub == [res |-> as_scripts, ub |-> FALSE]

RECURSIVE SkipTo(_, _, _)
\* while (content < end && *content != byte) content++
SkipTo(src, content, byte) ==
  IF content <= Len(src) /\ src[content] # byte THEN SkipTo(src, content + 1, byte)
  ELSE content

RECURSIVE SkipSpaces(_, _)
\* while (content < end && (*content == ' ' || *content == '\t')) content++
SkipSpaces(src, content) ==
  IF content <= Len(src) /\ src[content] = SPACE THEN SkipSpaces(src, content + 1)
  ELSE content

RECURSIVE GatherFrom(_, _, _, _)
\* The loop of gatherIncludes from position content, which is the start of a
\* line. strncmp(content, "#include", 8) on a '#' that is the last byte of the
\* buffer reads past its end: beyond is whether the bytes it finds there
\* complete the directive.
GatherFrom(src, content, dependencies, beyond) ==
  IF content > Len(src) THEN dependencies
  ELSE
    LET n == Len(src)
        match == src[content] = INCLUDE \/ (src[content] = HASH /\ content = n /\ beyond)
        after == IF src[content] = INCLUDE THEN content + 1 ELSE n + 1
        q == SkipSpaces(src, after)
        opens == q <= n /\ src[q] = QUOTE
        close == SkipTo(src, q + 1, QUOTE)
        deps == IF match /\ opens /\ close <= n
                  THEN Append(dependencies, PathOf(SubSeq(src, q + 1, close - 1)))
                  ELSE dependencies
        pos == IF ~match THEN content ELSE IF opens THEN close ELSE q
    IN GatherFrom(src, SkipTo(src, pos, NEWLINE) + 1, deps, beyond)

\* gatherIncludes(src, dependencies, path)
GatherIncludes(src, beyond) == GatherFrom(src, 1, <<>>, beyond)

\* OutputMemoryStream::write of a u32: four bytes, the least significant first
WriteU32(v) ==
  <<v % 256, (v \div 256) % 256, (v \div 65536) % 256, (v \div 16777216) % 256>>

\* InputMemoryStream::read of a u32 at position pos
ReadU32(mem, pos) ==
  mem[pos] + 256 * mem[pos + 1] + 65536 * mem[pos + 2] + 16777216 * mem[pos + 3]

RECURSIVE WriteStrings(_)
\* out.writeString(dep.c_str()) for each dependency: its bytes and a NUL
WriteStrings(deps) ==
  IF deps = <<>> THEN <<>>
  ELSE PathText(Head(deps)) \o <<NUL>> \o WriteStrings(Tail(deps))

\* What AssetPlugin::compile writes for a file of content src_data
Compile(src_data, beyond) ==
  LET deps == GatherIncludes(src_data, beyond)
  IN WriteU32(Len(deps)) \o WriteStrings(deps) \o src_data

\* ResourceManagerHub::load<ASScript>(path) for a path that is not empty: the
\* object of that path (one per path), with one more reference
HubLoad(a, path) == [a EXCEPT !.res[path].ref_count = @ + 1]

RECURSIVE LoadDependencies(_, _, _, _, _)
\* The loop of ASScript::load on the ASScript of path r, left dependencies to
\* read from position pos of mem, and the statement after it. readString that
\* finds no NUL before the end of mem fails an assertion of the stream; load
\* of the empty path returns nullptr, which addDependency(*scr) dereferences.
LoadDependencies(a, r, mem, pos, left) ==
  IF left = 0
    THEN [a EXCEPT !.res[r].m_source_code = SubSeq(mem, pos, Len(mem))]
  ELSE
    LET end == SkipTo(mem, pos, NUL)
        dep_path == PathOf(SubSeq(mem, pos, end - 1))
        Push(x) == [x EXCEPT !.res[r].m_dependencies = Append(@, dep_path)]
    IN IF end > Len(mem) \/ dep_path = NoPath THEN [a EXCEPT !.ub = TRUE]
       ELSE Then(Then(HubLoad(a, dep_path), Push),
                 LAMBDA x : LoadDependencies(x, r, mem, end + 1, left - 1))

\* ASScript::load(mem) on the ASScript of path r; it returns true
ASScriptLoad(a, r, mem) ==
  Then(LoadDependencies(a, r, mem, 5, ReadU32(mem, 1)),
       LAMBDA x : IF x.ub THEN x ELSE [x EXCEPT !.res[r].loaded = TRUE])

RECURSIVE ASDecRefCount(_, _)
RECURSIVE ReleaseEach(_, _)
\* for (ASScript* scr : m_dependencies) scr->decRefCount()
ReleaseEach(a, deps) ==
  IF deps = <<>> THEN a
  ELSE Then(ASDecRefCount(a, Head(deps)), LAMBDA x : ReleaseEach(x, Tail(deps)))

\* an unload that releases the dependencies and leaves them in the list
ASScriptUnloadKeepsList(a, r) ==
  Then(ReleaseEach(a, a.res[r].m_dependencies),
       LAMBDA x : [x EXCEPT !.res[r].m_source_code = <<>>, !.res[r].loaded = FALSE])

\* ASScript::unload() on the ASScript of path r, as Resource::doUnload calls it
ASScriptUnload(a, r) ==
  Then(ReleaseEach(a, a.res[r].m_dependencies),
       LAMBDA x : [x EXCEPT !.res[r].m_dependencies = <<>>,
                            !.res[r].m_source_code = <<>>,
                            !.res[r].loaded = FALSE])

\* Resource::decRefCount() on the ASScript of path r: the last reference
\* unloads it. A release of a reference nobody holds is undefined behaviour.
ASDecRefCount(a, r) ==
  IF a.res[r].ref_count = 0 THEN [a EXCEPT !.ub = TRUE]
  ELSE Then([a EXCEPT !.res[r].ref_count = @ - 1],
            LAMBDA x : IF x.res[r].ref_count = 0 THEN ASScriptUnload(x, r) ELSE x)

\* the file contents of at most MaxFileLen codes
FileBytes == {NEWLINE, SPACE, QUOTE, HASH, NAME_A, LETTER, INCLUDE}
Contents == UNION {[1..k -> FileBytes] : k \in 0..MaxFileLen}

\* script files: empty, without include, including a.as, b.as, both, and the
\* empty path
ScriptFiles ==
  {<<>>,
   <<LETTER, NEWLINE>>,
   <<INCLUDE, SPACE, QUOTE, NAME_A, QUOTE, NEWLINE, LETTER>>,
   <<INCLUDE, SPACE, QUOTE, NAME_B, QUOTE, NEWLINE, LETTER>>,
   <<INCLUDE, QUOTE, NAME_B, QUOTE, NEWLINE, INCLUDE, QUOTE, NAME_A, QUOTE, NEWLINE>>,
   <<INCLUDE, QUOTE, QUOTE>>}

\* the state of the module, which the asset pipeline does not touch
module_state ==
  <<m_scripts, m_inline_scripts, modules, contexts, resources, m_function_call,
    world_components, stream>>

\* a step of the asset pipeline named op has run to its end
Note(op) ==
  /\ last' = [op |-> op, ret |-> "", awake |-> <<>>, exec |-> <<>>,
              created |-> <<>>, unread |-> 0, teardown |-> <<>>]
  /\ UNCHANGED module_state

\* the ASScript objects after a step named op
CommitScripts(a, op) ==
  /\ UNCHANGED <<bindings, side>>
  /\ as_scripts' = a.res
  /\ fault' = IF a.ub THEN "undefined" ELSE "none"
  /\ Note(op)

\* The file of a path is written (by the editor, or outside of it).
SaveFile(path, data) ==
  /\ Running
  /\ files' = [files EXCEPT ![path] = [exists |-> TRUE, data |-> data]]
  /\ UNCHANGED <<compiled, as_scripts, user_refs, fault, bindings, side>>
  /\ Note("save")

\* AssetPlugin::compile(src): false when the file cannot be read
CompileAsset(src) ==
  /\ Running
  /\ files[src].exists
  /\ \E beyond \in BOOLEAN :
       compiled' = [compiled EXCEPT
                      ![src] = [exists |-> TRUE, data |-> Compile(files[src].data, beyond)]]
  /\ UNCHANGED <<files, as_scripts, user_refs, fault, bindings, side>>
  /\ Note("compile")

\* A user of the resource manager loads the script of a path and keeps the
\* reference.
AcquireScript(path) ==
  /\ Running
  /\ user_refs[path] < MaxHeld
  /\ user_refs' = [user_refs EXCEPT ![path] = @ + 1]
  /\ UNCHANGED <<files, compiled>>
  /\ CommitScripts(HubLoad(Hub, path), "load")

\* A user releases a reference it holds.
DropScript(path) ==
  /\ Running
  /\ user_refs[path] > 0
  /\ user_refs' = [user_refs EXCEPT ![path] = @ - 1]
  /\ UNCHANGED <<files, compiled>>
  /\ CommitScripts(ASDecRefCount(Hub, path), "decRefCount")

\* The resource manager has read the compiled resource of a referenced,
\* unloaded script and calls ASScript::load on its bytes.
LoadScript(path) ==
  /\ Running
  /\ as_scripts[path].ref_count > 0
  /\ ~as_scripts[path].loaded
  /\ compiled[path].exists
  /\ UNCHANGED <<files, compiled, user_refs>>
  /\ CommitScripts(ASScriptLoad(Hub, path, compiled[path].data), "ASScript::load")

\* The resource manager unloads a loaded script to load it again
\* (Resource::doUnload).
UnloadScript(path) ==
  /\ Running
  /\ as_scripts[path].loaded
  /\ UNCHANGED <<files, compiled, user_refs>>
  /\ CommitScripts(ASScriptUnload(Hub, path), "ASScript::unload")

\* ------------------------------------------------ reflected component methods
\* the argument types of reflected functions (two of reflection::Variant::Type)
ArgTypes == {"I32", "ENTITY"}

\* The reflected functions of components, each given by the types of its
\* arguments: at most MaxArgs, the first being the entity of the component.
Functions ==
  {f \in UNION {[1..n -> ArgTypes] : n \in 1..MaxArgs} : f[1] = "ENTITY"}

\* getAngelScriptTypeName(type)
GetAngelScriptTypeName(type) == IF type = "I32" THEN "int32" ELSE "Entity"

\* the parameters of the declaration registerComponentMethod builds for func:
\* for (u32 i = 1; i < func->getArgCount(); ++i)
DeclaredParams(func) == [i \in 1..(Len(func) - 1) |-> GetAngelScriptTypeName(func[i + 1])]

\* indices of entities, and the values a script passes
EntityIndices == 0..1
ScriptValues == 0..1
\* what a read of the low 32 bits of a pointer may give
GarbageValues == 0..2

\* The argument lists of a call site of a method declared with params: one
\* slot per parameter; the slot of an int32 holds the value, the slot of an
\* Entity holds the address of an EntityRef of that index.
CallSites(params) ==
  {a \in [1..Len(params) -> [decl : {"int32", "Entity"}, v : ScriptValues]] :
     \A k \in 1..Len(params) : a[k].decl = params[k]}

NoCall == [called |-> FALSE, f |-> <<>>, obj |-> 0, script_args |-> <<>>, args |-> <<>>]

\* toVariant(gen, arg_idx, type, val) for the two types: GetArgDWord, or the
\* EntityRef at GetArgAddress
ToVariant(gen, arg_idx, type) == [type |-> type, v |-> gen.args[arg_idx + 1].v]

\* What componentMethodClosure passes to f->invoke, where gen.obj is the
\* component (known by the index of its entity) and gen.args the slots of the
\* call site. GetAddressOfArg(0) is the address of the first slot, null when
\* there is none; read as an EntityRef it gives the value of an int32 and
\* part of the pointer an Entity slot holds.
ComponentMethodClosure(f, gen, garbage) ==
  IF Len(gen.args) = 0 THEN [ub |-> TRUE, args |-> <<>>]
  ELSE
    LET slot == gen.args[1]
        entity == IF slot.decl = "int32" THEN slot.v ELSE garbage
    IN [ub |-> FALSE,
        args |-> [i \in 1..Len(f) |->
                    IF i = 1 THEN [type |-> "ENTITY", v |-> entity]
                    ELSE ToVariant(gen, i - 2, f[i])]]

\* a trampoline that takes the entity from the component it is called on
ComponentMethodClosureOfObject(f, gen, garbage) ==
  [ub |-> FALSE,
   args |-> [i \in 1..Len(f) |->
               IF i = 1 THEN [type |-> "ENTITY", v |-> gen.obj]
               ELSE ToVariant(gen, i - 2, f[i])]]

\* a step of the binding named op has run
Bound(op) ==
  /\ last' = [op |-> op, ret |-> "", awake |-> <<>>, exec |-> <<>>,
              created |-> <<>>, unread |-> 0, teardown |-> <<>>]
  /\ UNCHANGED <<module_state, assets, side>>

\* registerComponentMethod(engine, component_name, func); RegisterObjectMethod
\* refuses a declaration that is registered already, and the ASSERT fails
RegisterComponentMethod(func) ==
  /\ Running
  /\ as_methods' = as_methods \cup {[func |-> func, params |-> DeclaredParams(func)]}
  /\ fault' = IF \E m \in as_methods : m.params = DeclaredParams(func)
                THEN "assert" ELSE "none"
  /\ UNCHANGED invoked
  /\ Bound("registerComponentMethod")

\* A script calls the registered method m on the component of the entity of
\* index obj with the arguments call_args: the VM runs componentMethodClosure.
CallComponentMethod(m, obj, call_args, garbage) ==
  /\ Running
  /\ m \in as_methods
  /\ call_args \in CallSites(m.params)
  /\ \E c \in {ComponentMethodClosure(m.func, [obj |-> obj, args |-> call_args], garbage)} :
       /\ fault' = IF c.ub THEN "undefined" ELSE "none"
       /\ invoked' = IF c.ub THEN invoked
                     ELSE [called |-> TRUE, f |-> m.func, obj |-> obj,
                           script_args |-> call_args, args |-> c.args]
  /\ UNCHANGED as_methods
  /\ Bound("componentMethodClosure")

\* ------------------------------------------------ resources held by handle
\* The failure sentinel of addASResource, 0xffFFffFF. Handles are u32; they
\* are written here as the int of the same 32 bits, which is what a script
\* receives and what keys m_as_resources.
INVALID_HANDLE == 0 - 1

\* ++m_last_as_resource_idx on 32 bits
Incremented(idx) == IF idx = IntMax THEN (0 - IntMax) - 1 ELSE idx + 1

\* the resource types a script may name: the script type, and one for which
\* the engine has no manager
ResourceTypes == {"as_script", "unknown"}

\* ResourceManagerHub::load(type, path): the resource (known by its path),
\* or nullptr for the empty path and for a type without manager
HubLoadOf(type, path) == IF path = NoPath \/ type # "as_script" THEN "nullptr" ELSE path

\* m_as_resources.find(resource): the entries of the handle
Find(table, resource) == {p \in table : p[1] = resource}

RECURSIVE ReleaseAll(_, _)
\* for (Resource* res : m_as_resources) res->decRefCount()
ReleaseAll(w, entries) ==
  IF entries = {} THEN w
  ELSE \* the order of the iteration does not matter to the counts
       LET p == CHOOSE x \in entries : TRUE
       IN Then(DecRefCount(Did(w, "decRefCount"), p[2]),
               LAMBDA x : ReleaseAll(x, entries \ {p}))

\* an addASResource that gives out the handle of the last entry again
AddASResourceReusing(path, type) ==
  /\ Running
  /\ system = "alive"
  /\ LET res == HubLoadOf(type, path)
         idx == Cardinality(m_as_resources) + 1
     IN IF res = "nullptr"
          THEN /\ CommitWorld(World, "addASResource", INVALID_HANDLE)
               /\ UNCHANGED side
        ELSE /\ CommitWorld(Load(World, res), "addASResource", idx)
             /\ m_last_as_resource_idx' = idx
             /\ m_as_resources' = {p \in m_as_resources : p[1] # idx} \cup {<<idx, res>>}
             /\ UNCHANGED <<system, extras>>

\* addASResource(path, type)
AddASResource(path, type) ==
  /\ Running
  /\ system = "alive"
  /\ LET res == HubLoadOf(type, path)
         idx == Incremented(m_last_as_resource_idx)
     IN IF res = "nullptr"
          THEN /\ CommitWorld(World, "addASResource", INVALID_HANDLE)
               /\ UNCHANGED side
        ELSE IF idx = INVALID_HANDLE
          THEN AssertFails("addASResource")
        ELSE /\ CommitWorld(Load(World, res), "addASResource", idx)
             /\ m_last_as_resource_idx' = idx
             /\ m_as_resources' = m_as_resources \cup {<<idx, res>>}
             /\ UNCHANGED <<system, extras>>

\* an unloadASResource that leaves the entry in the table
UnloadASResourceKeepsEntry(resource) ==
  /\ Running
  /\ system = "alive"
  /\ LET found == Find(m_as_resources, resource)
     IN IF found = {}
          THEN CommitWorld(World, "unloadASResource", "")
          ELSE \E p \in found : CommitWorld(DecRefCount(World, p[2]), "unloadASResource", "")
  /\ UNCHANGED side

\* unloadASResource(resource)
UnloadASResource(resource) ==
  /\ Running
  /\ system = "alive"
  /\ LET found == Find(m_as_resources, resource)
     IN IF found = {}
          THEN /\ CommitWorld(World, "unloadASResource", "")
               /\ UNCHANGED side
          ELSE \E p \in found :
                 /\ m_as_resources' = m_as_resources \ {p}
                 /\ CommitWorld(DecRefCount(World, p[2]), "unloadASResource", "")
                 /\ UNCHANGED <<m_last_as_resource_idx, system, extras>>

\* getASResource(resource): the resource of the handle, or nullptr
GetASResource(resource) ==
  /\ Running
  /\ system = "alive"
  /\ LET found == Find(m_as_resources, resource)
     IN CommitWorld(World, "getASResource",
                    IF found = {} THEN "nullptr" ELSE (CHOOSE p \in found : TRUE)[2])
  /\ UNCHANGED side

\* ~AngelScriptSystemImpl(): the references of the handles not unloaded are
\* released, the members are destroyed
DestroySystem ==
  /\ Running
  /\ system = "alive"
  /\ system' = "destroyed"
  /\ m_as_resources' = {}
  /\ UNCHANGED <<m_last_as_resource_idx, extras>>
  /\ CommitWorld(ReleaseAll(World, m_as_resources), "~AngelScriptSystemImpl", "")

\* ------------------------------------------------------------ StringFactory
\* the contents of the string constants of the scripts
StringContents == {"alpha", "beta"}

\* StableHash(str.begin, str.size()): the key of the content in m_strings
ContentHash(s) ==
  CASE s = "alpha" -> 8001
    [] s = "beta" -> 8002
    [] OTHER -> 8000

\* The addresses the allocator may give a StringData: one more than there are
\* contents, so that a content that is stored again may or may not get the
\* address it had.
StringAddrs == 1..(Cardinality(StringContents) + 1)

\* &iter.value()->string of the entries
LiveAddrs(strings) == {d.addr : d \in strings}

\* A call of the StringFactory named op has returned ret.
Interned(op, ret) ==
  /\ last' = [op |-> op, ret |-> ret, awake |-> <<>>, exec |-> <<>>,
              created |-> <<>>, unread |-> 0, teardown |-> <<>>]
  /\ fault' = "none"
  /\ UNCHANGED <<module_state, assets, bindings, handles, editor, names, extensions>>

\* StringFactory::GetStringConstant(data, length)
GetStringConstant(data) ==
  /\ Running
  /\ LET hash == ContentHash(data)
         found == {d \in m_strings : d.hash = hash}
     IN IF found # {}
          THEN \E d \in found :
                 /\ m_strings' = (m_strings \ {d}) \cup {[d EXCEPT !.ref_count = @ + 1]}
                 /\ Interned("GetStringConstant", d.addr)
          ELSE \E a \in StringAddrs \ LiveAddrs(m_strings) :
                 /\ m_strings' = m_strings \cup
                      {[hash |-> hash, string |-> data, addr |-> a, ref_count |-> 1]}
                 /\ Interned("GetStringConstant", a)
  /\ string_calls' = [string_calls EXCEPT ![data].gets = @ + 1]

\* a ReleaseStringConstant that keeps the entry whose count has reached 0
ReleaseStringConstantKeepsEntry(str) ==
  /\ Running
  /\ LET found == {d \in m_strings : d.addr = str}
     IN IF found = {}
          THEN /\ Interned("ReleaseStringConstant", 0 - 1)
               /\ UNCHANGED factory
          ELSE \E d \in found :
                 /\ m_strings' = (m_strings \ {d}) \cup {[d EXCEPT !.ref_count = @ - 1]}
                 /\ string_calls' = [string_calls EXCEPT ![d.string].released = @ + 1]
                 /\ Interned("ReleaseStringConstant", 0)

\* StringFactory::ReleaseStringConstant(str)
ReleaseStringConstant(str) ==
  /\ Running
  /\ LET found == {d \in m_strings : d.addr = str}
     IN IF found = {}
          THEN /\ Interned("ReleaseStringConstant", 0 - 1)
               /\ UNCHANGED factory
          ELSE \E d \in found :
                 /\ m_strings' =
                      IF d.ref_count - 1 = 0 THEN m_strings \ {d}
                      ELSE (m_strings \ {d}) \cup {[d EXCEPT !.ref_count = @ - 1]}
                 /\ string_calls' = [string_calls EXCEPT ![d.string].released = @ + 1]
                 /\ Interned("ReleaseStringConstant", 0)

\* ------------------------------------------------- editor-extension plugins
\* the name create asks the engine's module by, "TempPlugin", written as a
\* number like the names of the modules of the script instances
TempPlugin == 1

\* the contents of the files of editor/scripts/plugins: two plugins, a script
\* without getPluginName(), one without initPlugin(), one that does not build
PluginScripts == {"tool_a", "tool_b", "noname", "noinit", "bad"}

\* the listings of the directory
RECURSIVE Listings(_)
Listings(n) ==
  IF n = 0 THEN {<<>>}
  ELSE Listings(n - 1) \cup
       {Append(l, c) : l \in {x \in Listings(n - 1) : Len(x) = n - 1}, c \in PluginScripts}

PluginCtxIds == 1..MaxPlugins

\* The VM objects and the plugins the editor code works on; the functions it
\* runs are logged in exec with the code of the module they were found in.
Studio ==
  [mods |-> plugin_modules, ctxs |-> plugin_contexts, plugins |-> m_plugins,
   exec |-> <<>>, teardown |-> <<>>, ub |-> FALSE, h |-> NullH]

\* engine->CreateContext(): a context at an address no plugin refers to
CreatePluginContext(s) ==
  LET fresh == Min({c \in PluginCtxIds : s.ctxs[c] = "free"})
  IN [s EXCEPT !.h = fresh, !.ctxs[fresh] = "live"]

\* ctx->Prepare(module->GetFunctionByDecl(decl)); ctx->Execute()
RunFunction(s, h, decl) == [s EXCEPT !.exec = Append(@, <<decl, s.mods[h].code>>)]

\* StudioAngelScriptPlugin::create(app, content, path) and, for the plugin it
\* returns, m_plugins.push(plugin); the functions of the plugin scripts run to
\* their end, and getPluginName() of a script answers a name of its own,
\* written as the content of the script
Create(s, content) ==
  LET module == GetModule(s, TempPlugin)
      h == module.h
  IN IF ~SourceAdds(content) THEN module
     ELSE
       LET built == Build(AddScriptSection(module, h, content), h)
           funcs == ModuleFuncs(built.mods[h])
       IN IF built.mods[h].built # "ok" THEN built
          ELSE IF "initPlugin" \notin funcs THEN built
          ELSE
            LET made == CreatePluginContext(built)
                ctx == made.h
                inited == RunFunction(made, h, "initPlugin")
            IN IF "getPluginName" \notin funcs
                 THEN Release(Did(inited, "Release"), ctx)
                 ELSE [RunFunction(inited, h, "getPluginName") EXCEPT
                         !.plugins =
                           Append(@, [m_name |-> content, m_script_module |-> h,
                                      m_script_context |-> ctx,
                                      m_action |-> "windowMenuAction" \in funcs])]

RECURSIVE CreateEach(_, _)
\* the loop of initPlugins over the files of the directory
CreateEach(s, listing) ==
  IF listing = <<>> THEN s
  ELSE Then(Create(s, Head(listing)), LAMBDA x : CreateEach(x, Tail(listing)))

\* asIScriptModule::Discard() on a module of the editor: the engine drops the
\* module and every plugin's handle to it dangles; Discard through a dangling
\* handle is undefined behaviour
DiscardPluginModule(s, h) ==
  IF h = Dangling THEN [s EXCEPT !.ub = TRUE]
  ELSE [s EXCEPT
          !.mods[h] = BlankModule,
          !.plugins = [k \in 1..Len(s.plugins) |->
                         [s.plugins[k] EXCEPT !.m_script_module =
                            IF @ = h THEN Dangling ELSE @]]]

\* ~StudioAngelScriptPlugin() of the plugin at index k
DestroyPlugin(s, k) ==
  LET plugin == s.plugins[k]
      released == IF plugin.m_script_context = NullH THEN s
                  ELSE Release(Did(s, "Release"), plugin.m_script_context)
  IN IF plugin.m_script_module = NullH THEN released
     ELSE DiscardPluginModule(Did(released, "Discard"), released.plugins[k].m_script_module)

RECURSIVE DestroyPluginsFrom(_, _)
\* for (plugin : m_plugins) LUMIX_DELETE(plugin)
DestroyPluginsFrom(s, k) ==
  IF k > Len(s.plugins) THEN s
  ELSE Then(DestroyPlugin(s, k), LAMBDA x : DestroyPluginsFrom(x, k + 1))

\* the editor code named op has run to its end on s
Extended(s, op) ==
  /\ plugin_modules' = s.mods
  /\ plugin_contexts' = s.ctxs
  /\ m_plugins' = s.plugins
  /\ fault' = IF s.ub THEN "undefined" ELSE "none"
  /\ last' = [op |-> op, ret |-> "", awake |-> <<>>, exec |-> s.exec,
              created |-> <<>>, unread |-> 0, teardown |-> s.teardown]
  /\ UNCHANGED <<module_state, assets, bindings, handles, factory, editor, names>>

\* StudioAppPlugin::initPlugins(), the directory listing the files of listing
InitPlugins(listing) ==
  /\ Running
  /\ studio = "starting"
  /\ studio' = "running"
  /\ Extended(CreateEach(Studio, listing), "initPlugins")

\* StudioAngelScriptPlugin::onGUI() of the plugin at index k, the shortcut of
\* its window action being pressed or not. GetFunctionByDecl through a handle
\* to a discarded module is undefined behaviour.
PluginOnGUI(k, shortcut) ==
  /\ Running
  /\ studio = "running"
  /\ k \in 1..Len(m_plugins)
  /\ UNCHANGED studio
  /\ LET plugin == m_plugins[k]
         h == plugin.m_script_module
     IN IF h = NullH \/ plugin.m_script_context = NullH THEN Extended(Studio, "onGUI")
        ELSE IF h = Dangling THEN Extended([Studio EXCEPT !.ub = TRUE], "onGUI")
        ELSE
          LET funcs == ModuleFuncs(plugin_modules[h])
              acted == IF plugin.m_action /\ shortcut /\ "windowMenuAction" \in funcs
                         THEN RunFunction(Studio, h, "windowMenuAction")
                         ELSE Studio
          IN Extended(IF "gui" \in funcs THEN RunFunction(acted, h, "gui") ELSE acted,
                      "onGUI")

\* ~StudioAppPlugin(): the plugins are removed from the app and deleted
DestroyStudioAppPlugin ==
  /\ Running
  /\ studio = "running"
  /\ studio' = "destroyed"
  /\ \E s \in {DestroyPluginsFrom(Studio, 1)} :
       Extended([s EXCEPT !.plugins = <<>>], "~StudioAppPlugin")

Init ==
  /\ plugin_modules = [n \in {TempPlugin} |-> BlankModule]
  /\ plugin_contexts = [c \in PluginCtxIds |-> "free"]
  /\ m_plugins = <<>>
  /\ studio = "starting"
  /\ m_property_names = {}
  /\ editor_calls = <<>>
  /\ m_strings = {}
  /\ string_calls = [c \in StringContents |-> [gets |-> 0, released |-> 0]]
  /\ m_as_resources = {}
  /\ m_last_as_resource_idx = 0
  /\ system = "alive"
  /\ as_methods = {}
  /\ invoked = NoCall
  /\ files = [p \in ScriptPaths |-> NoFile]
  /\ compiled = [p \in ScriptPaths |-> NoFile]
  /\ as_scripts = [p \in ScriptPaths |-> BlankScript]
  /\ user_refs = [p \in ScriptPaths |-> 0]
  /\ m_scripts = [e \in Entities |-> NoComponent]
  /\ m_inline_scripts = [e \in Entities |-> NoInline]
  /\ modules = [n \in Names |-> BlankModule]
  /\ contexts = [c \in CtxIds |-> "free"]
  /\ resources = [r \in Paths |-> BlankResource]
  /\ m_function_call = InitFunctionCall
  /\ world_components = {}
  /\ stream = <<>>
  /\ fault = "none"
  /\ last = [op |-> "init", ret |-> "", awake |-> <<>>, exec |-> <<>>,
             created |-> <<>>, unread |-> 0, teardown |-> <<>>]

\* World::onComponentCreated(entity, type, this): the world records the
\* component of the entity
Created(w, e, type) ==
  [w EXCEPT !.created = Append(@, <<e, type>>), !.attached = @ \cup {<<e, type>>}]

\* World::onComponentDestroyed(entity, type, this): the world drops its record
Destroyed(w, e, type) == [w EXCEPT !.attached = @ \ {<<e, type>>}]

\* LUMIX_NEW ScriptComponent(*this, entity, allocator); m_scripts.insert(entity, script)
NewScriptComponent(w, e) ==
  [w EXCEPT !.scripts[e] = [NoComponent EXCEPT !.exists = TRUE, !.m_entity = e]]

\* createScriptComponent(entity)
CreateScriptComponent(e) ==
  /\ Running
  /\ ~m_scripts[e].exists
  /\ Commit(Created(NewScriptComponent(World, e), e, "angelscript"),
            "createScriptComponent", "")

\* destroyScriptComponent without the call of World::onComponentDestroyed
DestroyScriptComponentUntold(e) ==
  /\ Running
  /\ m_scripts[e].exists
  /\ Commit([DestroyAll(World, e, 1) EXCEPT !.scripts[e] = NoComponent],
            "destroyScriptComponent", "")

\* destroyScriptComponent(entity): LUMIX_DELETE of the component destroys its instances
DestroyScriptComponent(e) ==
  /\ Running
  /\ m_scripts[e].exists
  /\ Commit(Destroyed([DestroyAll(World, e, 1) EXCEPT !.scripts[e] = NoComponent],
                      e, "angelscript"),
            "destroyScriptComponent", "")

\* InlineScriptComponent(entity, module, allocator); the new component is left in w.tmp.
InlineScriptComponentCtor(w, e) ==
  LET Make(w1, w2) ==
        [w2 EXCEPT !.tmp = [exists |-> TRUE, m_entity |-> e, m_source |-> NoSource,
                            m_script_module |-> w1.h, m_script_context |-> w2.h]]
  IN Then(GetModule(w, NewInstanceName(w)),
          LAMBDA w1 : Then(CreateContext(w1), LAMBDA w2 : Make(w1, w2)))

\* InlineScriptComponent::~InlineScriptComponent()
InlineScriptComponentDtor(w, cmp) ==
  LET ReleaseContext(x) ==
        IF cmp.m_script_context # NullH THEN Release(x, cmp.m_script_context) ELSE x
      DiscardModule(x) ==
        IF cmp.m_script_module # NullH THEN Discard(x, cmp.m_script_module) ELSE x
  IN Then(ReleaseContext(w), DiscardModule)

\* m_inline_scripts.insert(entity, InlineScriptComponent(entity, *this, allocator)):
\* the temporary is moved into the map and destroyed with null handles.
InsertInline(w, e) ==
  Then(InlineScriptComponentCtor(w, e),
       LAMBDA x : InlineScriptComponentDtor([x EXCEPT !.inl[e] = x.tmp], NoInline))

\* createInlineScriptComponent(entity)
CreateInlineScriptComponent(e) ==
  /\ Running
  /\ ~m_inline_scripts[e].exists
  /\ Commit(Created(InsertInline(World, e), e, "angelscript_inline"),
            "createInlineScriptComponent", "")

\* destroyInlineScriptComponent(entity)
DestroyInlineScriptComponent(e) ==
  /\ Running
  /\ m_inline_scripts[e].exists
  /\ Commit(Destroyed(InlineScriptComponentDtor([World EXCEPT !.inl[e] = NoInline],
                                                 m_inline_scripts[e]),
                      e, "angelscript_inline"),
            "destroyInlineScriptComponent", "")

\* insertScript(entity, idx)
InsertScript(e, idx) ==
  /\ Running
  /\ m_scripts[e].exists
  /\ Len(m_scripts[e].m_scripts) < MaxScripts
  /\ idx \in 0..Len(m_scripts[e].m_scripts)
  /\ Commit(EmplaceAt(World, e, idx), "insertScript", "")

\* addScript(entity, scr_index): -1 appends
AddScript(e, scr_index) ==
  /\ Running
  /\ m_scripts[e].exists
  /\ Len(m_scripts[e].m_scripts) < MaxScripts
  /\ scr_index \in (0 - 1)..Len(m_scripts[e].m_scripts)
  /\ LET idx == IF scr_index = 0 - 1 THEN Len(m_scripts[e].m_scripts) ELSE scr_index
     IN Commit(EmplaceAt(World, e, idx), "addScript", idx)

\* removeScript(entity, scr_index)
RemoveScript(e, scr_index) ==
  /\ Running
  /\ m_scripts[e].exists
  /\ scr_index \in 0..(Len(m_scripts[e].m_scripts) - 1)
  /\ Commit(SwapAndPop(World, e, scr_index), "removeScript", "")

\* m_scripts.size() - 2 in unsigned 32-bit arithmetic: below two scripts it
\* wraps to 2^32 - 2 + size. That is beyond the integers of the model checker,
\* so the largest one stands for it: every index compares below both.
SizeMinus2(size) == IF size >= 2 THEN size - 2 ELSE IntMax - 2 + size

\* moveScript(entity, scr_index, up); Array::operator[] asserts index < size.
MoveScript(e, scr_index, up) ==
  /\ Running
  /\ m_scripts[e].exists
  /\ scr_index \in 0..(Len(m_scripts[e].m_scripts) - 1)
  /\ LET size == Len(m_scripts[e].m_scripts)
         other == IF up THEN scr_index - 1 ELSE scr_index + 1
     IN IF ~up /\ scr_index > SizeMinus2(size)
          THEN Commit(World, "moveScript", "")
        ELSE IF up /\ scr_index = 0
          THEN Commit(World, "moveScript", "")
        ELSE IF other >= size
          THEN AssertFails("moveScript")
        ELSE Commit(SwapSlots(World, e, scr_index + 1, other + 1),
                    "moveScript", "")

\* setScriptPath(entity, scr_index, path)
SetScriptPath(e, scr_index, path) ==
  /\ Running
  /\ m_scripts[e].exists
  /\ scr_index \in 0..Len(m_scripts[e].m_scripts)
  /\ IF Len(m_scripts[e].m_scripts) <= scr_index
       THEN Commit(World, "setScriptPath", "")
       ELSE Commit(SetPath(World, e, scr_index + 1, path),
                   "setScriptPath", "")

\* Resource r of w finishes loading: its source is `source`, its state goes to
\* READY and its observers are called.
BecomesReady(w, r, source) ==
  LET w1 == [w EXCEPT !.res[r].state = "READY", !.res[r].source = source]
  IN Invoke(w1, w1.res[r].cb, "READY", r)

\* The resource manager finishes loading resource r.
ResourceReady(r, source) ==
  /\ Running
  /\ resources[r].state = "EMPTY"
  /\ resources[r].ref_count > 0
  /\ Commit(BecomesReady(World, r, source), "READY", "")

\* Resource r of w is unloaded: ASScript::unload clears the source, the state
\* goes to EMPTY and its observers are called.
BecomesEmpty(w, r) ==
  LET w1 == [w EXCEPT !.res[r].state = "EMPTY", !.res[r].source = NoSource]
  IN Invoke(w1, w1.res[r].cb, "EMPTY", r)

\* The resource manager unloads resource r (a reload begins).
ResourceEmpty(r) ==
  /\ Running
  /\ resources[r].state = "READY"
  /\ Commit(BecomesEmpty(World, r), "EMPTY", "")

\* Resource r of w fails to load: its state goes to FAILURE and its observers
\* are called.
BecomesFailed(w, r) ==
  LET w1 == [w EXCEPT !.res[r].state = "FAILURE"]
  IN Invoke(w1, w1.res[r].cb, "FAILURE", r)

\* The resource manager fails to load resource r.
ResourceFailure(r) ==
  /\ Running
  /\ resources[r].state = "EMPTY"
  /\ resources[r].ref_count > 0
  /\ Commit(BecomesFailed(World, r), "FAILURE", "")

\* ------------------------------------------------ the function-call protocol
\* the two assertions compiled out
BeginAssertionOff(fc) == TRUE

EndAssertionOff(fc) == TRUE

\* ASSERT(!m_function_call.is_in_progress) of beginFunctionCall and
\* beginFunctionCallInlineScript: what the assertion requires
BeginAssertion(fc) == ~fc.is_in_progress

\* ASSERT(m_function_call.is_in_progress) of endFunctionCall
EndAssertion(fc) == fc.is_in_progress

\* beginFunctionCall(env, function) once GetFunctionByName has answered
\* (func is TRUE for a function, FALSE for null); the result is left in w.h
\* as TRUE for &m_function_call and FALSE for nullptr.
BeginFunctionCallEnv(w, env, func) ==
  IF ~func THEN [w EXCEPT !.h = FALSE]
  ELSE [w EXCEPT !.h = TRUE,
                 !.fc = [context |-> env.m_script_context, module |-> env.m_script_module,
                         world |-> "m_world", is_in_progress |-> TRUE,
                         parameter_count |-> 0]]

RetOf(w) == IF w.h THEN "handle" ELSE "null"

\* beginFunctionCall(env, function) as a step named op. GetFunctionByName
\* through a handle to a discarded module is undefined behaviour: it may answer
\* anything.
BeginOn(env, function, op) ==
  IF env.m_script_module = NullH \/ env.m_script_context = NullH
    THEN Commit(World, op, "null")
  ELSE IF env.m_script_module = Dangling
    THEN \E func \in BOOLEAN :
           \E w \in {BeginFunctionCallEnv([World EXCEPT !.ub = TRUE], env, func)} :
             Commit(w, op, RetOf(w))
  ELSE
    \E w \in {BeginFunctionCallEnv(
                World, env, function \in ModuleFuncs(modules[env.m_script_module]))} :
      Commit(w, op, RetOf(w))

\* beginFunctionCall(entity, scr_index, function)
BeginFunctionCall(e, scr_index, function) ==
  /\ Running
  /\ IF ~BeginAssertion(m_function_call)
       THEN /\ scr_index = 0
            /\ AssertFails("beginFunctionCall")
     ELSE IF ~m_scripts[e].exists
       THEN /\ scr_index = 0
            /\ Commit(World, "beginFunctionCall", "null")
     ELSE
       /\ scr_index \in 0..(Len(m_scripts[e].m_scripts) - 1)
       /\ BeginOn(m_scripts[e].m_scripts[scr_index + 1], function, "beginFunctionCall")

\* beginFunctionCallInlineScript(entity, function)
BeginFunctionCallInlineScript(e, function) ==
  /\ Running
  /\ IF ~BeginAssertion(m_function_call)
       THEN AssertFails("beginFunctionCallInlineScript")
     ELSE IF ~m_inline_scripts[e].exists
       THEN Commit(World, "beginFunctionCallInlineScript", "null")
     ELSE BeginOn(m_inline_scripts[e], function, "beginFunctionCallInlineScript")

\* IFunctionCall::add(parameter), on the handle beginFunctionCall returned: every
\* overload only counts the parameter, its value is not kept.
AddParameter ==
  /\ Running
  /\ m_function_call.is_in_progress
  /\ m_function_call.parameter_count < MaxParams
  /\ Commit([World EXCEPT !.fc.parameter_count = @ + 1], "add", "")

\* endFunctionCall(): the assertion, then is_in_progress = false; the execution
\* of the call is a TODO comment, so nothing is prepared, bound or executed.
EndFunctionCall ==
  /\ Running
  /\ IF ~EndAssertion(m_function_call)
       THEN AssertFails("endFunctionCall")
       ELSE Commit([World EXCEPT !.fc.is_in_progress = FALSE], "endFunctionCall", "")

\* ------------------------------------------------------ the editor callbacks
\* ANGELSCRIPT_TYPE and the type of some other component
ComponentTypes == {"angelscript", "other"}

\* the selections of the property grid: one entity or two
Selections == {<<e>> : e \in Entities} \cup {<<"e1", "e2">>}

\* no call made yet, on the module as it is
Calling == [w |-> World, calls |-> <<>>, assert |-> FALSE]

\* a loop body that never calls endFunctionCall
CallSlotNeverEnds(r, e, i, function) ==
  IF ~BeginAssertion(r.w.fc) THEN [r EXCEPT !.assert = TRUE]
  ELSE
    LET env == Slots(r.w, e)[i + 1]
    IN IF env.m_script_module = NullH \/ env.m_script_context = NullH
         THEN [r EXCEPT !.calls = Append(@, <<"beginFunctionCall", i, "null">>)]
       ELSE IF env.m_script_module = Dangling
         THEN [r EXCEPT !.w.ub = TRUE]
       ELSE
         LET begun == BeginFunctionCallEnv(
                        r.w, env, function \in ModuleFuncs(r.w.mods[env.m_script_module]))
         IN [r EXCEPT !.w = begun,
                      !.calls = Append(@, <<"beginFunctionCall", i, RetOf(begun)>>)]

\* if (module->beginFunctionCall(e, i, function)) module->endFunctionCall();
\* with the assertions of the two. GetFunctionByName through a handle to a
\* discarded module is undefined behaviour, and the run ends there.
CallSlot(r, e, i, function) ==
  IF ~BeginAssertion(r.w.fc) THEN [r EXCEPT !.assert = TRUE]
  ELSE
    LET env == Slots(r.w, e)[i + 1]
    IN IF env.m_script_module = NullH \/ env.m_script_context = NullH
         THEN [r EXCEPT !.calls = Append(@, <<"beginFunctionCall", i, "null">>)]
       ELSE IF env.m_script_module = Dangling
         THEN [r EXCEPT !.w.ub = TRUE]
       ELSE
         LET begun == BeginFunctionCallEnv(
                        r.w, env, function \in ModuleFuncs(r.w.mods[env.m_script_module]))
             called == Append(r.calls, <<"beginFunctionCall", i, RetOf(begun)>>)
         IN IF ~begun.h THEN [r EXCEPT !.w = begun, !.calls = called]
            ELSE IF ~EndAssertion(begun.fc)
              THEN [r EXCEPT !.w = begun, !.calls = called, !.assert = TRUE]
            ELSE [r EXCEPT !.w = [begun EXCEPT !.fc.is_in_progress = FALSE],
                           !.calls = Append(called, <<"endFunctionCall">>)]

RECURSIVE CallSlotsFrom(_, _, _, _)
\* for (i = ...; i < count; ++i) of onGUI and showGizmo, count being
\* getScriptCount(e) before the loop
CallSlotsFrom(r, e, i, function) ==
  IF i >= Len(Slots(World, e)) \/ r.assert \/ r.w.ub THEN r
  ELSE Then(CallSlot(r, e, i, function), LAMBDA x : CallSlotsFrom(x, e, i + 1, function))

\* the editor callback named op has made the calls of r and returned ret
Called(r, op, ret) ==
  IF r.assert
    THEN AssertFails("beginFunctionCall")
    ELSE /\ CommitWorld(r.w, op, ret)
         /\ editor_calls' = r.calls
         /\ UNCHANGED <<handles, factory, names, extensions>>

\* PropertyGridPlugin::onGUI(grid, entities, cmp_type, filter, editor); the
\* grid shows a component of the type on every entity of the selection
OnGUI(entities, cmp_type, filter_active) ==
  /\ Running
  /\ cmp_type = "angelscript" => \A k \in 1..Len(entities) : m_scripts[entities[k]].exists
  /\ IF filter_active \/ cmp_type # "angelscript" \/ Len(entities) # 1
       THEN Called(Calling, "onGUI", "")
       ELSE Called(CallSlotsFrom(Calling, entities[1], 0, "onGUI"), "onGUI", "")

\* StudioAppPlugin::showGizmo(view, cmp), cmp being a component of the world
ShowGizmo(cmp_type, e) ==
  /\ Running
  /\ cmp_type = "angelscript" => m_scripts[e].exists
  /\ IF cmp_type = "angelscript"
       THEN Called(CallSlotsFrom(Calling, e, 0, "onDrawGizmo"), "showGizmo", TRUE)
       ELSE Called(Calling, "showGizmo", FALSE)

\* ------------------------------------------------- properties and flags
\* getScriptProperty without the search: a property is created at every call
GetScriptPropertyAlwaysCreates(w, e, i, name) ==
  LET inst == Slots(w, e)[i]
      props == inst.m_properties
  IN [SetInst(w, e, i,
        [inst EXCEPT !.m_properties =
           Append(props, [name_hash |-> NameHash(name), type |-> "ANY",
                          stored_value |-> ""])])
      EXCEPT !.h = Len(props) + 1]

\* getScriptProperty(entity, scr_index, name): the property of that name hash,
\* created at the end of the list with type ANY when there is none; its
\* 1-based position is left in w.h.
GetScriptProperty(w, e, i, name) ==
  LET inst == Slots(w, e)[i]
      props == inst.m_properties
      hits == {k \in 1..Len(props) : props[k].name_hash = NameHash(name)}
  IN IF hits # {} THEN [w EXCEPT !.h = Min(hits)]
     ELSE [SetInst(w, e, i,
             [inst EXCEPT !.m_properties =
                Append(props, [name_hash |-> NameHash(name), type |-> "ANY",
                               stored_value |-> ""])])
           EXCEPT !.h = Len(props) + 1]

\* setPropertyValue storing into the first property of the list, whatever its name
StoreValueInFirst(w, e, i, name, value) ==
  LET Store(x) ==
        SetInst(x, e, i, [Slots(x, e)[i] EXCEPT !.m_properties[1].stored_value = value])
  IN Then(GetScriptProperty(w, e, i, name), Store)

\* prop.stored_value = value on the property getScriptProperty answers, for
\* slot i of e's component
StoreValue(w, e, i, name, value) ==
  LET Store(x) ==
        SetInst(x, e, i, [Slots(x, e)[i] EXCEPT !.m_properties[x.h].stored_value = value])
  IN Then(GetScriptProperty(w, e, i, name), Store)

\* setPropertyValue(entity, scr_index, name, value)
SetPropertyValue(e, scr_index, name, value) ==
  /\ Running
  /\ m_scripts[e].exists
  /\ scr_index \in 0..(Len(m_scripts[e].m_scripts) - 1)
  /\ \/ Len(m_scripts[e].m_scripts[scr_index + 1].m_properties) < MaxProps
     \/ \E k \in 1..Len(m_scripts[e].m_scripts[scr_index + 1].m_properties) :
          m_scripts[e].m_scripts[scr_index + 1].m_properties[k].name_hash = NameHash(name)
  /\ Commit(StoreValue(World, e, scr_index + 1, name, value), "setPropertyValue", "")

\* What getPropertyValue copies to out (long enough for every stored text) for
\* slot i of e's component: the stored value of the first property of that
\* name hash, the empty string when there is none.
PropertyValueOf(w, e, i, property_name) ==
  LET props == Slots(w, e)[i].m_properties
      hits == {k \in 1..Len(props) : props[k].name_hash = NameHash(property_name)}
  IN IF hits # {} THEN props[Min(hits)].stored_value ELSE ""

\* getPropertyValue(entity, scr_index, property_name, out); what is in out is
\* given as the return value
GetPropertyValue(e, scr_index, property_name) ==
  /\ Running
  /\ m_scripts[e].exists
  /\ scr_index \in 0..(Len(m_scripts[e].m_scripts) - 1)
  /\ Commit(World, "getPropertyValue", PropertyValueOf(World, e, scr_index + 1, property_name))

\* an execute that answers true whenever main() exists
ExecuteOnIgnoresOutcome(w, e, i, code) ==
  LET script == Slots(w, e)[i]
      h == script.m_script_module
      Run(x) ==
        IF x.mods[h].built # "ok" THEN [x EXCEPT !.h = FALSE]
        ELSE IF "main" \in ModuleFuncs(x.mods[h])
          THEN [x EXCEPT !.h = TRUE, !.exec = Append(@, <<"main", e, i - 1>>)]
        ELSE [x EXCEPT !.h = TRUE]
  IN IF h = NullH \/ script.m_script_context = NullH THEN [w EXCEPT !.h = FALSE]
     ELSE IF h = Dangling THEN [w EXCEPT !.h = FALSE, !.ub = TRUE]
     ELSE IF ~SourceAdds(code) THEN [w EXCEPT !.h = FALSE]
     ELSE Then(Build(AddScriptSection(w, h, code), h), Run)

\* execute(entity, scr_index, code) on slot i of e's component; the return
\* value is left in w.h. A call through a handle to a discarded module is
\* undefined behaviour.
ExecuteOn(w, e, i, code) ==
  LET script == Slots(w, e)[i]
      h == script.m_script_module
      Run(x) ==
        IF x.mods[h].built # "ok" THEN [x EXCEPT !.h = FALSE]
        ELSE IF "main" \in ModuleFuncs(x.mods[h])
          THEN [x EXCEPT !.h = \A k \in 1..Len(x.mods[h].code) :
                                  SourceFinishes(x.mods[h].code[k]),
                         !.exec = Append(@, <<"main", e, i - 1>>)]
        ELSE [x EXCEPT !.h = TRUE]
  IN IF h = NullH \/ script.m_script_context = NullH THEN [w EXCEPT !.h = FALSE]
     ELSE IF h = Dangling THEN [w EXCEPT !.h = FALSE, !.ub = TRUE]
     ELSE IF ~SourceAdds(code) THEN [w EXCEPT !.h = FALSE]
     ELSE Then(Build(AddScriptSection(w, h, code), h), Run)

\* execute(entity, scr_index, code)
Execute(e, scr_index, code) ==
  /\ Running
  /\ m_scripts[e].exists
  /\ scr_index \in 0..(Len(m_scripts[e].m_scripts) - 1)
  /\ \E w \in {ExecuteOn(World, e, scr_index + 1, code)} : Commit(w, "execute", w.h)

\* setFlag(flags, flag, set)
SetFlag(flags, flag, set) == IF set THEN flags \cup {flag} ELSE flags \ {flag}

\* enableScript(entity, scr_index, enable) on slot i of e's component
EnableOn(w, e, i, enable) ==
  SetInst(w, e, i, [Slots(w, e)[i] EXCEPT !.m_flags = SetFlag(@, "ENABLED", enable)])

\* enableScript(entity, scr_index, enable)
EnableScript(e, scr_index, enable) ==
  /\ Running
  /\ m_scripts[e].exists
  /\ scr_index \in 0..(Len(m_scripts[e].m_scripts) - 1)
  /\ Commit(EnableOn(World, e, scr_index + 1, enable), "enableScript", "")

\* isScriptEnabled(entity, scr_index), on slot i = scr_index + 1
IsScriptEnabled(w, e, i) == "ENABLED" \in Slots(w, e)[i].m_flags

\* setInlineScriptCode(entity, value)
SetInlineScriptCode(e, value) ==
  /\ Running
  /\ m_inline_scripts[e].exists
  /\ Commit([World EXCEPT !.inl[e].m_source = value], "setInlineScriptCode", "")

\* getPropertyName(name_hash): the name m_property_names holds for the hash,
\* "N/A" when it holds none
PropertyNameOf(table, name_hash) ==
  LET found == {p \in table : p[1] = name_hash}
  IN IF found = {} THEN "N/A" ELSE (CHOOSE p \in found : TRUE)[2]

\* getPropertyName(entity, scr_index, prop_index)
GetPropertyName(e, scr_index, prop_index) ==
  /\ Running
  /\ m_scripts[e].exists
  /\ scr_index \in 0..(Len(m_scripts[e].m_scripts) - 1)
  /\ prop_index \in 0..(Len(m_scripts[e].m_scripts[scr_index + 1].m_properties) - 1)
  /\ Commit(World, "getPropertyName",
            PropertyNameOf(
              m_property_names,
              m_scripts[e].m_scripts[scr_index + 1].m_properties[prop_index + 1].name_hash))

\* ------------------------------------------------------------ serialization
\* One value of the stream: what was written (a 32-bit size, an entity id, a
\* string, the flags word, a name hash, a property type) and the value.
Item(kind, v) == [kind |-> kind, v |-> v]

RECURSIVE SerializeProperties(_, _)
\* the loop over scr.m_properties, from property j on
SerializeProperties(props, j) ==
  IF j > Len(props) THEN <<>>
  ELSE <<Item("hash", props[j].name_hash), Item("type", props[j].type),
         Item("string", props[j].stored_value)>>
       \o SerializeProperties(props, j + 1)

RECURSIVE SerializeScripts(_, _)
\* the loop over script_cmp->m_scripts, from slot i on; the path of no
\* resource is Path(), the empty string
SerializeScripts(arr, i) ==
  IF i > Len(arr) THEN <<>>
  ELSE <<Item("string", IF arr[i].m_script # NoPath THEN arr[i].m_script ELSE ""),
         Item("flags", arr[i].m_flags),
         Item("i32", Len(arr[i].m_properties))>>
       \o SerializeProperties(arr[i].m_properties, 1)
       \o SerializeScripts(arr, i + 1)

RECURSIVE SerializeComponents(_, _)
\* the loop over m_scripts, from the k-th entity on
SerializeComponents(w, k) ==
  IF k > Len(EntitySeq) THEN <<>>
  ELSE LET cmp == w.scripts[EntitySeq[k]]
       IN (IF cmp.exists
             THEN <<Item("entity", cmp.m_entity), Item("i32", Len(cmp.m_scripts))>>
                  \o SerializeScripts(cmp.m_scripts, 1)
             ELSE <<>>)
          \o SerializeComponents(w, k + 1)

RECURSIVE SerializeInlines(_, _)
\* the loop over m_inline_scripts, from the k-th entity on
SerializeInlines(w, k) ==
  IF k > Len(EntitySeq) THEN <<>>
  ELSE (IF w.inl[EntitySeq[k]].exists
          THEN <<Item("entity", EntitySeq[k]),
                 Item("string", w.inl[EntitySeq[k]].m_source)>>
          ELSE <<>>)
       \o SerializeInlines(w, k + 1)

\* serialize(serializer): what it writes
Serialized(w) ==
  <<Item("i32", Cardinality({e \in Entities : w.inl[e].exists}))>>
  \o SerializeInlines(w, 1)
  \o <<Item("i32", Cardinality({e \in Entities : w.scripts[e].exists}))>>
  \o SerializeComponents(w, 1)

\* serialize(serializer)
Serialize ==
  /\ Running
  /\ stream = <<>>
  /\ Commit([World EXCEPT !.stream = Serialized(World)], "serialize", "")

\* What a read answers when the stream holds no value of the kind asked for.
Garbage(kind) ==
  CASE kind = "i32" -> 0
    [] kind = "entity" -> EntitySeq[1]
    [] kind = "flags" -> {}
    [] kind = "hash" -> 0
    [] kind = "type" -> "ANY"
    [] OTHER -> ""

\* InputMemoryStream::read<T>() / readString(): the next value, left in w.h.
\* Reading a value as another kind than it was written as, or past the end,
\* yields bytes that mean nothing.
Read(w, kind) ==
  IF w.in # <<>> /\ Head(w.in).kind = kind
    THEN [w EXCEPT !.h = Head(w.in).v, !.in = Tail(w.in)]
    ELSE [w EXCEPT !.h = Garbage(kind), !.ub = TRUE,
                   !.in = IF w.in = <<>> THEN <<>> ELSE Tail(w.in)]

RECURSIVE DeserializeProperties(_, _, _, _)
\* the loop over the properties of the instance in slot i, j of prop_count done:
\* the property is emplaced with type ANY, its hash is read into it, its type is
\* read into a local that is dropped, its text is read into it.
DeserializeProperties(w, e, i, left) ==
  IF left <= 0 THEN w
  ELSE
    LET WithText(w1, w3) ==
          SetInst(w3, e, i,
            [Slots(w3, e)[i] EXCEPT !.m_properties =
               Append(@, [name_hash |-> w1.h, type |-> "ANY", stored_value |-> w3.h])])
    IN Then(Then(Read(w, "hash"),
                 LAMBDA w1 : Then(Read(w1, "type"),
                   LAMBDA w2 : Then(Read(w2, "string"), LAMBDA w3 : WithText(w1, w3)))),
            LAMBDA x : DeserializeProperties(x, e, i, left - 1))

\* one script with its flags read into a local that is dropped, as the
\* property type is
DeserializeScriptDropsFlags(w, e, i) ==
  LET Linked(w1, w4) == SetPath(w4, e, i, w1.h)
  IN Then(Read(w, "string"),
       LAMBDA w1 : Then(Then(Read(w1, "flags"), LAMBDA w2 : Read(w2, "i32")),
         LAMBDA w3 : Then(DeserializeProperties(w3, e, i, w3.h),
           LAMBDA w4 : Linked(w1, w4))))

\* One turn of the loop over the scripts of e's component, once the new
\* instance is emplaced in slot i: its path is read, its flags are read over
\* those the constructor set, its properties are read, then setPath links it.
DeserializeScript(w, e, i) ==
  LET Linked(w1, w4) == SetPath(w4, e, i, w1.h)
      WithFlags(w2) == SetInst(w2, e, i, [Slots(w2, e)[i] EXCEPT !.m_flags = w2.h])
  IN Then(Read(w, "string"),
       LAMBDA w1 : Then(Then(Then(Read(w1, "flags"), WithFlags),
                             LAMBDA w2 : Read(w2, "i32")),
         LAMBDA w3 : Then(DeserializeProperties(w3, e, i, w3.h),
           LAMBDA w4 : Linked(w1, w4))))

RECURSIVE DeserializeScripts(_, _, _)
\* the loop over the scripts of e's component, left of scr_count to do: a new
\* instance is emplaced at the end and read
DeserializeScripts(w, e, left) ==
  IF left <= 0 THEN w
  ELSE
    LET i == Len(Slots(w, e)) + 1
    IN Then(Then(EmplaceAt(w, e, i - 1), LAMBDA w0 : DeserializeScript(w0, e, i)),
            LAMBDA x : DeserializeScripts(x, e, left - 1))

\* one script component, created for the entity as it was saved
DeserializeComponentUnmapped(w, entity_map) ==
  LET One(w1) ==
        LET entity == w1.h
        IN Then(Then(Read(NewScriptComponent(w1, entity), "i32"),
                     LAMBDA w2 : DeserializeScripts(w2, entity, w2.h)),
                LAMBDA w3 : Created(w3, entity, "angelscript"))
  IN Then(Read(w, "entity"), One)

\* One turn of the loop over the script components: the entity is read and
\* mapped, the component is created and inserted under it, its scripts are
\* read, and the world is told of the component.
DeserializeComponent(w, entity_map) ==
  LET One(w1) ==
        LET entity == entity_map[w1.h]
        IN Then(Then(Read(NewScriptComponent(w1, entity), "i32"),
                     LAMBDA w2 : DeserializeScripts(w2, entity, w2.h)),
                LAMBDA w3 : Created(w3, entity, "angelscript"))
  IN Then(Read(w, "entity"), One)

RECURSIVE DeserializeComponents(_, _, _)
\* the loop over the script components, left of len to do
DeserializeComponents(w, entity_map, left) ==
  IF left <= 0 THEN w
  ELSE Then(DeserializeComponent(w, entity_map),
            LAMBDA x : DeserializeComponents(x, entity_map, left - 1))

RECURSIVE DeserializeInlines(_, _, _)
\* the loop over the inline components, left of inline_len to do
DeserializeInlines(w, entity_map, left) ==
  IF left <= 0 THEN w
  ELSE
    LET One(w1) ==
          LET entity == entity_map[w1.h]
          IN Then(Then(Read(InsertInline(w1, entity), "string"),
                       LAMBDA w2 : [w2 EXCEPT !.inl[entity].m_source = w2.h]),
                  LAMBDA w3 : Created(w3, entity, "angelscript_inline"))
    IN Then(Then(Read(w, "entity"), One),
            LAMBDA x : DeserializeInlines(x, entity_map, left - 1))

\* deserialize(serializer, entity_map, version) reading w.in; version is not
\* looked at anywhere in the function.
DeserializeFrom(w, entity_map, version) ==
  Then(Then(Then(Read(w, "i32"),
                 LAMBDA w1 : DeserializeInlines(w1, entity_map, w1.h)),
            LAMBDA w2 : Read(w2, "i32")),
       LAMBDA w3 : DeserializeComponents(w3, entity_map, w3.h))

\* AngelScriptModuleImpl(system, world) in an engine that has loaded nothing:
\* no component, no VM module, no context, no resource in use
EmptyModule ==
  [scripts |-> [e \in Entities |-> NoComponent],
   inl |-> [e \in Entities |-> NoInline],
   mods |-> [n \in Names |-> BlankModule],
   ctxs |-> [c \in CtxIds |-> "free"],
   res |-> [r \in Paths |-> BlankResource],
   fc |-> InitFunctionCall, attached |-> {}, stream |-> <<>>, awake |-> <<>>, exec |-> <<>>,
   created |-> <<>>, in |-> <<>>, teardown |-> <<>>, ub |-> FALSE,
   h |-> NullH, tmp |-> <<>>]

\* the world saved by serialize, loaded by deserialize into an empty module
\* under entity_map
Reloaded(w, entity_map) ==
  DeserializeFrom([EmptyModule EXCEPT !.in = Serialized(w)], entity_map, LATEST)

\* the entities a stream names
StreamEntities(items) == {items[k].v : k \in {j \in 1..Len(items) : items[j].kind = "entity"}}

\* deserialize(serializer, entity_map, version) of the stream serialize wrote,
\* into a world in which the entities it is mapped to have no script component
\* and no inline component yet. The saved world is loaded once.
Deserialize(entity_map, version) ==
  /\ Running
  /\ stream # <<>>
  /\ \A e \in StreamEntities(stream) :
       ~m_scripts[entity_map[e]].exists /\ ~m_inline_scripts[entity_map[e]].exists
  /\ Commit(DeserializeFrom([World EXCEPT !.in = stream, !.stream = <<>>],
                            entity_map, version),
            "deserialize", "")

\* ------------------------------------------------------------ specification
\* the component, slot and resource operations
LifecycleNext ==
  \/ \E e \in EditEntities : CreateScriptComponent(e)
  \/ \E e \in EditEntities : DestroyScriptComponent(e)
  \/ \E e \in EditEntities, idx \in 0..MaxScripts : InsertScript(e, idx)
  \/ \E e \in EditEntities, idx \in (0 - 1)..MaxScripts : AddScript(e, idx)
  \/ \E e \in EditEntities, idx \in 0..MaxScripts : RemoveScript(e, idx)
  \/ \E e \in EditEntities, idx \in 0..MaxScripts, up \in BOOLEAN : MoveScript(e, idx, up)
  \/ \E e \in EditEntities, idx \in 0..MaxScripts, path \in Paths \cup {NoPath} :
       SetScriptPath(e, idx, path)
  \/ \E r \in Paths, source \in Sources : ResourceReady(r, source)
  \/ \E r \in Paths : ResourceEmpty(r)

\* the function-call protocol
CallNext ==
  \/ \E e \in EditEntities, idx \in 0..MaxScripts, f \in FunctionNames :
       BeginFunctionCall(e, idx, f)
  \/ \E e \in EditEntities, f \in FunctionNames : BeginFunctionCallInlineScript(e, f)
  \/ AddParameter
  \/ EndFunctionCall

\* the inline components
InlineNext ==
  \/ \E e \in EditEntities : CreateInlineScriptComponent(e)
  \/ \E e \in EditEntities : DestroyInlineScriptComponent(e)

Next == LifecycleNext \/ InlineNext \/ CallNext

Spec == Init /\ [][Next]_vars

SpecLife == Init /\ [][LifecycleNext]_vars

\* the same operations, with loads that fail
SpecNotify == Init /\ [][LifecycleNext \/ \E r \in Paths : ResourceFailure(r)]_vars

\* the function-call protocol on a component whose slots are added, linked to
\* one script (whose source builds or fails to), loaded, unloaded and removed
SlotNext ==
  \/ \E e \in EditEntities : CreateScriptComponent(e)
  \/ \E e \in EditEntities : CreateInlineScriptComponent(e)
  \/ \E e \in EditEntities : DestroyInlineScriptComponent(e)
  \/ \E e \in EditEntities, idx \in (0 - 1)..MaxScripts : AddScript(e, idx)
  \/ \E e \in EditEntities, idx \in 0..MaxScripts : RemoveScript(e, idx)
  \/ \E e \in EditEntities, idx \in 0..MaxScripts, path \in {CallPath, NoPath} :
       SetScriptPath(e, idx, path)
  \/ \E source \in CallSources : ResourceReady(CallPath, source)
  \/ ResourceEmpty(CallPath)

SpecCall == Init /\ [][SlotNext \/ CallNext]_vars

\* e has neither a script component nor an inline component
Unpopulated(e) == ~m_scripts[e].exists /\ ~m_inline_scripts[e].exists

\* A world is edited (components, slots, paths, properties, enabled flags,
\* inline sources), saved, torn down and loaded again under either entity map.
\* One entity at a time bears components; properties are set on slot 0.
EditNext ==
  \/ \E e \in EditEntities :
       (\A o \in Entities \ {e} : Unpopulated(o)) /\ CreateScriptComponent(e)
  \/ \E e \in EditEntities :
       (\A o \in Entities \ {e} : Unpopulated(o)) /\ CreateInlineScriptComponent(e)
  \/ \E e \in EditEntities, src \in InlineSources : SetInlineScriptCode(e, src)
  \/ \E e \in EditEntities : AddScript(e, 0 - 1)
  \/ \E e \in Entities, idx \in 0..MaxScripts, path \in {CallPath, NoPath} :
       SetScriptPath(e, idx, path)
  \/ \E e \in EditEntities, name \in PropertyNames, value \in PropertyValues :
       SetPropertyValue(e, 0, name, value)
  \/ \E e \in EditEntities, idx \in 0..MaxScripts, enable \in BOOLEAN :
       EnableScript(e, idx, enable)
  \/ \E e \in Entities, idx \in 0..MaxScripts : RemoveScript(e, idx)

SerialNext ==
  \/ stream = <<>> /\ EditNext
  \/ Serialize
  \/ \E e \in Entities : DestroyScriptComponent(e)
  \/ \E e \in Entities : DestroyInlineScriptComponent(e)
  \/ \E source \in {"awake"} : ResourceReady(CallPath, source)
  \/ /\ \A e \in Entities : Unpopulated(e)
     /\ \E entity_map \in EntityMaps, version \in Versions : Deserialize(entity_map, version)

SpecSerial == Init /\ [][SerialNext]_vars

\* The property store of a component with up to MaxScripts slots, the first of
\* which is linked to a script that loads, fails to load, builds or fails to
\* build and is unloaded: every name is set to every text and asked for.
PropsNext ==
  \/ \E e \in EditEntities : CreateScriptComponent(e)
  \/ \E e \in EditEntities : AddScript(e, 0 - 1)
  \/ \E e \in EditEntities, path \in {CallPath, NoPath} : SetScriptPath(e, 0, path)
  \/ \E source \in CallSources : ResourceReady(CallPath, source)
  \/ ResourceEmpty(CallPath)
  \/ ResourceFailure(CallPath)
  \/ \E e \in EditEntities, idx \in 0..MaxScripts, name \in PropertyNames,
        value \in StoredTexts : SetPropertyValue(e, idx, name, value)
  \/ \E e \in EditEntities, idx \in 0..MaxScripts, name \in AskedNames :
       GetPropertyValue(e, idx, name)

SpecProps == Init /\ [][PropsNext]_vars

\* Slots that bear properties are inserted, moved and removed, linked to a
\* script that loads, builds or fails to build, and is unloaded and reloaded.
FrameNext ==
  \/ \E e \in EditEntities : CreateScriptComponent(e)
  \/ \E e \in EditEntities, idx \in 0..MaxScripts : InsertScript(e, idx)
  \/ \E e \in EditEntities, idx \in 0..MaxScripts : RemoveScript(e, idx)
  \/ \E e \in EditEntities, idx \in 0..MaxScripts, up \in BOOLEAN : MoveScript(e, idx, up)
  \/ \E e \in EditEntities, idx \in 0..MaxScripts, path \in {CallPath, NoPath} :
       SetScriptPath(e, idx, path)
  \/ \E source \in CallSources : ResourceReady(CallPath, source)
  \/ ResourceEmpty(CallPath)
  \/ \E e \in EditEntities, idx \in 0..MaxScripts, value \in StoredTexts :
       SetPropertyValue(e, idx, "speed", value)

SpecFrame == Init /\ [][FrameNext]_vars

\* Scripts that include each other are written and compiled once each, then
\* referenced, loaded, unloaded to be loaded again, and released.
ScriptNext ==
  \/ \E path \in Paths, data \in ScriptFiles : ~files[path].exists /\ SaveFile(path, data)
  \/ \E src \in Paths : ~compiled[src].exists /\ CompileAsset(src)
  \/ \E path \in Paths : AcquireScript(path)
  \/ \E path \in Paths : DropScript(path)
  \/ \E path \in ScriptPaths : LoadScript(path)
  \/ \E path \in ScriptPaths : UnloadScript(path)

SpecScript == Init /\ [][ScriptNext]_vars

\* One file of every content of at most MaxFileLen codes is written, compiled
\* and loaded.
BlobNext ==
  \/ \E data \in Contents : ~files[CallPath].exists /\ SaveFile(CallPath, data)
  \/ CompileAsset(CallPath)
  \/ AcquireScript(CallPath)
  \/ LoadScript(CallPath)

SpecBlob == Init /\ [][BlobNext]_vars

\* Reflected component methods are registered and called from scripts.
BindNext ==
  \/ \E func \in Functions : RegisterComponentMethod(func)
  \/ \E m \in as_methods, obj \in EntityIndices, garbage \in GarbageValues :
       \E call_args \in CallSites(m.params) : CallComponentMethod(m, obj, call_args, garbage)

SpecBind == Init /\ [][BindNext]_vars

\* Scripts are added and inserted among instances that are linked, loaded,
\* disabled and bear a property.
GrowNext ==
  \/ \E e \in EditEntities : CreateScriptComponent(e)
  \/ \E e \in EditEntities, idx \in 0..MaxScripts : InsertScript(e, idx)
  \/ \E e \in EditEntities, scr_index \in (0 - 1)..MaxScripts : AddScript(e, scr_index)
  \/ \E e \in EditEntities, idx \in 0..MaxScripts, path \in {CallPath, NoPath} :
       SetScriptPath(e, idx, path)
  \/ \E source \in CallSources : ResourceReady(CallPath, source)
  \/ \E e \in EditEntities, idx \in 0..MaxScripts, value \in StoredTexts :
       SetPropertyValue(e, idx, "speed", value)
  \/ \E e \in EditEntities, idx \in 0..MaxScripts, enable \in BOOLEAN :
       EnableScript(e, idx, enable)

SpecGrow == Init /\ [][GrowNext]_vars

\* the handles a script may pass: those given out, the next one, the sentinel
AskedHandles == 1..(MaxHandles + 1) \cup {INVALID_HANDLE}

\* Scripts load resources by handle, ask for them and unload them, at most
\* MaxHandles times with success; the system is destroyed.
HandleNext ==
  \/ \E path \in Paths \cup {NoPath}, type \in ResourceTypes :
       m_last_as_resource_idx \in 0..(MaxHandles - 1) /\ AddASResource(path, type)
  \/ \E resource \in AskedHandles : UnloadASResource(resource)
  \/ \E resource \in AskedHandles : GetASResource(resource)
  \/ DestroySystem

SpecHandle == Init /\ [][HandleNext]_vars

\* The VM asks the StringFactory for the constants of the scripts it compiles
\* and gives them back, by any address.
FactoryNext ==
  \/ \E data \in StringContents :
       string_calls[data].gets < MaxGets /\ GetStringConstant(data)
  \/ \E str \in StringAddrs : ReleaseStringConstant(str)

SpecFactory == Init /\ [][FactoryNext]_vars

\* The slots of a component are added, removed, linked to two scripts of which
\* one defines the functions the editor calls, loaded and unloaded, while the
\* property grid and the gizmo pass call the scripts.
GuiNext ==
  \/ \E e \in EditEntities : CreateScriptComponent(e)
  \/ \E e \in EditEntities, idx \in 0..MaxScripts : AddScript(e, idx)
  \/ \E e \in EditEntities, idx \in 0..MaxScripts : RemoveScript(e, idx)
  \/ \E e \in EditEntities, idx \in 0..MaxScripts, path \in Paths \cup {NoPath} :
       SetScriptPath(e, idx, path)
  \/ \E r \in Paths, source \in EditorSources : ResourceReady(r, source)
  \/ \E r \in Paths : ResourceEmpty(r)
  \/ \E entities \in Selections, cmp_type \in ComponentTypes, filter_active \in BOOLEAN :
       OnGUI(entities, cmp_type, filter_active)
  \/ \E cmp_type \in ComponentTypes, e \in EditEntities : ShowGizmo(cmp_type, e)

SpecGui == Init /\ [][GuiNext]_vars

\* Code is executed on the slots of a component that are added, linked to a script that loads, builds or fails to build and is unloaded,
\* enabled and disabled, and given a property.
ExecNext ==
  \/ \E e \in EditEntities : CreateScriptComponent(e)
  \/ \E e \in EditEntities : AddScript(e, 0 - 1)
  \/ \E e \in EditEntities, idx \in 0..MaxScripts, path \in {CallPath, NoPath} :
       SetScriptPath(e, idx, path)
  \/ \E source \in CallSources : ResourceReady(CallPath, source)
  \/ ResourceEmpty(CallPath)
  \/ \E e \in EditEntities, idx \in 0..MaxScripts, enable \in BOOLEAN :
       EnableScript(e, idx, enable)
  \/ \E e \in EditEntities, idx \in 0..MaxScripts :
       SetPropertyValue(e, idx, "speed", "5")
  \/ \E e \in EditEntities, idx \in 0..MaxScripts, code \in ExecuteInputs :
       Execute(e, idx, code)

SpecExec == Init /\ [][ExecNext]_vars

\* Properties are set by name on the slots of a component, in any order, and
\* the editor asks for the name of each.
NamesNext ==
  \/ \E e \in EditEntities : CreateScriptComponent(e)
  \/ \E e \in EditEntities : AddScript(e, 0 - 1)
  \/ \E e \in EditEntities, idx \in 0..MaxScripts, name \in PropertyNames,
        value \in StoredTexts : SetPropertyValue(e, idx, name, value)
  \/ \E e \in EditEntities, idx \in 0..MaxScripts, prop_index \in 0..MaxProps :
       GetPropertyName(e, idx, prop_index)

SpecNames == Init /\ [][NamesNext]_vars

\* The editor starts with any plugin directory, draws its plugins and shuts down.
PluginsNext ==
  \/ \E listing \in Listings(MaxPlugins) : InitPlugins(listing)
  \/ \E k \in 1..MaxPlugins, shortcut \in BOOLEAN : PluginOnGUI(k, shortcut)
  \/ DestroyStudioAppPlugin

SpecPlugins == Init /\ [][PluginsNext]_vars

\* ------------------------------------------------------------------ claims
\* the script instances of every component (none of them is moved-from: a
\* moved-from instance exists only inside an operation)
Instances == AllSlots(World)

HasLoaded(x) == "LOADED" \in x.m_flags

\* the VM accepts and builds the source
Compiles(source) == SourceAdds(source) /\ SourceBuilds(source)

\* x holds a handle to a module of the engine whose last build succeeded
HoldsBuiltModule(x) ==
  /\ x.m_script_module \notin {NullH, Dangling}
  /\ modules[x.m_script_module].alive
  /\ modules[x.m_script_module].built = "ok"

BeginOps == {"beginFunctionCall", "beginFunctionCallInlineScript"}

\* C1: in every state reached without a failed assertion or undefined
\* behaviour, every script instance whose LOADED flag is set holds a non-null
\* handle to a VM module of the engine whose most recent build succeeded.
C1_LoadedHoldsBuiltModule ==
  Running => \A k \in 1..Len(Instances) :
               HasLoaded(Instances[k]) => HoldsBuiltModule(Instances[k])

\* some slot of component e linked to resource r has LOADED set
LoadedOn(e, r) ==
  \E k \in 1..Len(m_scripts[e].m_scripts) :
    m_scripts[e].m_scripts[k].m_script = r /\ HasLoaded(m_scripts[e].m_scripts[k])

\* C2: when a READY notification of a resource whose source fails to add or to
\* build has been handled (the resource became READY, or a slot was linked to
\* it while it was READY), no instance the notification was delivered to has
\* LOADED set, and the handler invoked no awake.
C2_FailedReadyLeavesUnloaded ==
  [][\A r \in Paths :
       /\ (\E source \in Sources : ResourceReady(r, source) /\ ~Compiles(source))
            => /\ \A e \in Entities : ~LoadedOn(e, r)'
               /\ last'.awake = <<>>
       /\ \A e \in Entities :
            ((\E i \in 0..(MaxScripts - 1) : SetScriptPath(e, i, r) /\ i < Len(m_scripts[e].m_scripts))
              /\ resources[r].state = "READY" /\ ~Compiles(resources[r].source)
              /\ fault' = "none")
            => /\ ~LoadedOn(e, r)'
               /\ last'.awake = <<>>]_vars

\* C3: in every state reached without a failed assertion or undefined
\* behaviour, an instance with LOADED set is linked to a resource that is READY
\* (so it is not LOADED after setScriptPath with an empty path, after
\* setScriptPath to a resource that is not READY yet, or after EMPTY).
C3_LoadedOnlyWhileLinkedAndReady ==
  Running => \A k \in 1..Len(Instances) :
               HasLoaded(Instances[k]) =>
                 /\ Instances[k].m_script # NoPath
                 /\ resources[Instances[k].m_script].state = "READY"

\* C4 as stated: every script instance holds a non-null module handle and a
\* non-null context handle in every reachable state.
C4_ModuleAndContextNeverNull ==
  \A k \in 1..Len(Instances) :
    Instances[k].m_script_module # NullH /\ Instances[k].m_script_context # NullH

\* the number of instances whose module handle is null
NullModules == Cardinality({k \in 1..Len(Instances) : Instances[k].m_script_module = NullH})

\* C4 as amended: every script instance holds a non-null context handle in
\* every reachable state; an instance's module handle becomes null only in the
\* handling of an EMPTY notification, and an instance whose module handle is
\* null is not LOADED.
C4_ContextAlwaysModuleUntilEmpty ==
  /\ [](\A k \in 1..Len(Instances) :
          /\ Instances[k].m_script_context # NullH
          /\ Instances[k].m_script_module = NullH => ~HasLoaded(Instances[k]))
  /\ [][NullModules' > NullModules => last'.op = "EMPTY"]_vars

\* C4 witness: an EMPTY notification has left an instance without module and
\* with its context.
C4_Witness ==
  /\ last.op = "EMPTY"
  /\ \E k \in 1..Len(Instances) :
       /\ Instances[k].m_script_module = NullH
       /\ Instances[k].m_script_context # NullH

\* C5: in every state reached without a failed assertion or undefined
\* behaviour, no two script instances hold the same module handle and no two
\* bear the same module name.
C5_ModulesAndNamesDistinct ==
  Running => \A j, k \in 1..Len(Instances) :
               j < k =>
                 /\ Instances[j].m_module_name # Instances[k].m_module_name
                 /\ \/ Instances[j].m_script_module = NullH
                    \/ Instances[j].m_script_module # Instances[k].m_script_module

\* the holders of context c: the slots and inline components whose handle it is
Holders(c) ==
  Cardinality({k \in 1..Len(Instances) : Instances[k].m_script_context = c})
  + Cardinality({e \in Entities : m_inline_scripts[e].m_script_context = c})

\* C6: no context is released twice; a context is live exactly when one
\* instance holds it (none is leaked, none is released while held); and the
\* reference count of every resource is the number of instances linked to it.
C6_ReleasedExactlyOnce ==
  /\ \A c \in CtxIds :
       /\ contexts[c] # "released twice"
       /\ contexts[c] = "live" <=> Holders(c) = 1
       /\ Holders(c) <= 1
  /\ \A r \in Paths :
       resources[r].ref_count =
         Cardinality({k \in 1..Len(Instances) : Instances[k].m_script = r})

\* C6 witness: a removal has destroyed one instance and relocated another,
\* which is linked to a resource.
C6_Witness ==
  /\ last.op = "removeScript"
  /\ \E k \in 1..Len(Instances) :
       /\ Instances[k].m_module_name = EmptyName
       /\ Instances[k].m_script # NoPath

\* C7: in every state reached without undefined behaviour, the builder, while
\* in progress, references a context that is not released and a module that is
\* not discarded.
C7_BuilderTargetAlive ==
  (Running /\ m_function_call.is_in_progress) =>
    /\ contexts[m_function_call.context] = "live"
    /\ m_function_call.module # Dangling

\* C8: a beginFunctionCall or beginFunctionCallInlineScript made while
\* is_in_progress is true fails the assertion and leaves the builder as it is.
C8_SecondBeginAsserts ==
  [][(last'.op \in BeginOps /\ m_function_call.is_in_progress) =>
       /\ fault' = "assert"
       /\ last'.ret = "assert"
       /\ m_function_call' = m_function_call]_vars

\* C8 witness: a begin was refused while a call was under construction.
C8_Witness ==
  /\ fault = "assert"
  /\ last.op \in BeginOps
  /\ m_function_call.is_in_progress

\* C9: a begin that passes its assertion leaves is_in_progress true exactly when
\* it returns the handle; endFunctionCall made while it is true sets it to
\* false, made while it is false fails the assertion; no other operation
\* changes it.
C9_InProgressFromBeginToEnd ==
  [][/\ (last'.op \in BeginOps /\ fault' # "assert") =>
          (m_function_call'.is_in_progress <=> last'.ret = "handle")
     /\ last'.op = "endFunctionCall" =>
          IF m_function_call.is_in_progress
            THEN ~m_function_call'.is_in_progress /\ fault' = "none"
            ELSE fault' = "assert" /\ last'.ret = "assert"
     /\ last'.op \notin BeginOps \cup {"endFunctionCall"} =>
          m_function_call'.is_in_progress = m_function_call.is_in_progress]_vars

\* C9 witness: a call was begun on a slot, given a parameter and ended.
C9_Witness ==
  /\ last.op = "endFunctionCall"
  /\ fault = "none"
  /\ ~m_function_call.is_in_progress
  /\ m_function_call.parameter_count = 1

\* x is linked to a READY resource whose source the VM accepts and builds
LinkedToCompiled(x) ==
  /\ x.m_script # NoPath
  /\ resources[x.m_script].state = "READY"
  /\ Compiles(resources[x.m_script].source)

\* C10: a beginFunctionCall(entity, slot, name) that runs without a failed
\* assertion or undefined behaviour returns the handle exactly when the slot's
\* instance is linked to a READY resource whose source compiles and defines
\* the function; otherwise it returns null.
C10_BeginReturnsHandleOnlyForCompiled ==
  [][\A e \in Entities, i \in 0..(MaxScripts - 1), f \in FunctionNames :
       (BeginFunctionCall(e, i, f) /\ fault' = "none" /\ m_scripts[e].exists) =>
         (last'.ret = "handle" <=>
            /\ LinkedToCompiled(m_scripts[e].m_scripts[i + 1])
            /\ f \in SourceFuncs(resources[m_scripts[e].m_scripts[i + 1].m_script].source))]_vars

\* C11: an endFunctionCall that passes its assertion executes exactly one call,
\* on the context the builder was begun on and with the parameters added to it,
\* and leaves the builder reset.
C11_EndExecutesOnce ==
  [][(last'.op = "endFunctionCall" /\ fault' = "none") =>
       /\ Len(last'.exec) = 1
       /\ last'.exec[1].context = m_function_call.context
       /\ last'.exec[1].parameter_count = m_function_call.parameter_count
       /\ ~m_function_call'.is_in_progress]_vars

\* the number of times e's component is bound as an observer of resource r
Bindings(e, r) == Cardinality({k \in 1..Len(resources[r].cb) : resources[r].cb[k] = e})

\* the number of instances of e's component that are linked to resource r
Links(e, r) ==
  Cardinality({k \in 1..Len(m_scripts[e].m_scripts) : m_scripts[e].m_scripts[k].m_script = r})

\* C12: in every reachable state, the reference count of every resource is the
\* number of live instances linked to it, and every component is bound as its
\* observer as many times as it has instances linked to it.
C12_RefsAndBindingsMatchLinks ==
  \A r \in Paths :
    /\ resources[r].ref_count =
         Cardinality({k \in 1..Len(Instances) : Instances[k].m_script = r})
    /\ \A e \in Entities : Bindings(e, r) = Links(e, r)

\* C12 witness: a load has restored, under the other entity, a component with
\* two instances linked to one resource.
C12_Witness ==
  /\ last.op = "deserialize"
  /\ \E r \in Paths : resources[r].ref_count = 2 /\ Bindings("e2", r) = 2

\* What C13 compares of the instance in slot i of e's component: the resource
\* it is linked to, its LOADED flag, and the compiled content of its module.
PathView(w, e, i) ==
  LET x == Slots(w, e)[i]
  IN [m_script |-> x.m_script,
      loaded |-> "LOADED" \in x.m_flags,
      code |-> IF x.m_script_module \in {NullH, Dangling} THEN <<x.m_script_module>>
               ELSE w.mods[x.m_script_module].code]

\* setScriptPath(e, i - 1, path) on w, and then the load of the resource with
\* `source` if the call left it pending
SetPathSettled(w, e, i, path, source) ==
  Then(SetPath(w, e, i, path),
       LAMBDA x : IF path # NoPath /\ x.res[path].state = "EMPTY" /\ ~x.ub
                    THEN BecomesReady(x, path, source) ELSE x)

\* C13: from every reachable state, for every slot, path and source of the
\* path's resource, setScriptPath made twice (each time letting the load
\* notification arrive) leaves the instance linked to the same resource, with
\* the same LOADED flag and the same compiled module content as made once,
\* whenever neither run meets undefined behaviour.
C13_SetScriptPathIdempotent ==
  Running =>
    \A e \in Entities : \A i \in 1..Len(m_scripts[e].m_scripts) :
      \A path \in Paths \cup {NoPath}, source \in Sources :
        \E once \in {SetPathSettled(World, e, i, path, source)} :
          \E twice \in {SetPathSettled(once, e, i, path, source)} :
            (~once.ub /\ ~twice.ub) => PathView(twice, e, i) = PathView(once, e, i)

\* C13 witness: setScriptPath was made on a LOADED instance with the path it is
\* linked to already; the instance is pending and still LOADED.
C13_Witness ==
  /\ last.op = "setScriptPath"
  /\ \E k \in 1..Len(Instances) :
       /\ HasLoaded(Instances[k])
       /\ Instances[k].m_script # NoPath
       /\ resources[Instances[k].m_script].state = "EMPTY"

\* the sources the VM accepts and builds
ValidSources == {"plain", "awake"}

\* addScript(e, idx) (idx 0-based, the slot the instance lands in), then
\* setScriptPath of that slot to path, then the load of the resource with
\* `source` if it is pending
AddLinkLoad(w, e, idx, path, source) ==
  Then(EmplaceAt(w, e, idx), LAMBDA x : SetPathSettled(x, e, idx + 1, path, source))

\* C14: from every reachable state, addScript at any index, then setScriptPath
\* of the new slot to a resource whose source the VM accepts and builds, then
\* the resource's READY (unless it is READY already) leave the new instance
\* LOADED and enabled, holding a module of the engine built from exactly one
\* section, the resource's source, whenever the steps meet no undefined
\* behaviour.
C14_ValidScriptLoads ==
  Running =>
    \A e \in Entities :
      (m_scripts[e].exists /\ Len(m_scripts[e].m_scripts) < MaxScripts) =>
        \A idx \in 0..Len(m_scripts[e].m_scripts), path \in Paths, source \in ValidSources :
          (resources[path].state = "EMPTY" \/ Compiles(resources[path].source)) =>
            \E w \in {AddLinkLoad(World, e, idx, path, source)} :
              ~w.ub =>
                /\ "LOADED" \in Slots(w, e)[idx + 1].m_flags
                /\ IsScriptEnabled(w, e, idx + 1)
                /\ Slots(w, e)[idx + 1].m_script_module \notin {NullH, Dangling}
                /\ w.mods[Slots(w, e)[idx + 1].m_script_module].alive
                /\ w.mods[Slots(w, e)[idx + 1].m_script_module].code = <<w.res[path].source>>

\* C14 witness: a READY has loaded an instance of a component that has another
\* instance before it: it is LOADED, enabled, and its module is built from the
\* one section that is its resource's source.
C14_Witness ==
  /\ last.op = "READY"
  /\ \E e \in Entities :
       /\ Len(m_scripts[e].m_scripts) = 2
       /\ LET x == m_scripts[e].m_scripts[2]
          IN /\ x.m_flags = {"ENABLED", "LOADED"}
             /\ x.m_script # NoPath
             /\ x.m_script_module \notin {NullH, Dangling}
             /\ modules[x.m_script_module].code = <<resources[x.m_script].source>>
             /\ Compiles(resources[x.m_script].source)

\* the number of times x occurs in the sequence s
Count(s, x) == Cardinality({k \in 1..Len(s) : s[k] = x})

\* C15: a READY of a resource whose source the VM accepts and builds, handled
\* without undefined behaviour, leaves every instance linked to the resource
\* LOADED and has executed its awake exactly once if the source defines awake,
\* and not at all if it does not.
C15_AwakeOncePerReady ==
  [][\A r \in Paths, source \in Sources :
       (ResourceReady(r, source) /\ Compiles(source) /\ fault' = "none") =>
         \A e \in Entities : \A k \in 1..Len(m_scripts'[e].m_scripts) :
           m_scripts'[e].m_scripts[k].m_script = r =>
             /\ HasLoaded(m_scripts'[e].m_scripts[k])
             /\ Count(last'.awake, <<e, k - 1>>) =
                  IF "awake" \in SourceFuncs(source) THEN 1 ELSE 0]_vars

\* What C16 compares of an instance x, given the engine's modules and contexts:
\* its flags, its properties, whether its context is live, and its module
\* (none, discarded, or the module's sections, code and build result).
InstanceView(x, mods, ctxs) ==
  [m_flags |-> x.m_flags,
   m_properties |-> x.m_properties,
   context |-> IF x.m_script_context = NullH THEN "null" ELSE ctxs[x.m_script_context],
   module |-> IF x.m_script_module \in {NullH, Dangling} THEN <<x.m_script_module>>
              ELSE <<mods[x.m_script_module]>>]

\* the last step was the delivery of a load-state notification of resource r
Notified(r) ==
  \/ \E source \in Sources : ResourceReady(r, source)
  \/ ResourceEmpty(r)
  \/ ResourceFailure(r)

\* C16: the delivery of a notification of resource r, handled without
\* undefined behaviour, leaves the flags, module, context and properties of
\* every instance that is not linked to r as they were, and those of every
\* instance when the new state is neither READY nor EMPTY.
C16_NotificationFrame ==
  [][\A r \in Paths :
       (Notified(r) /\ fault' = "none") =>
         \A e \in Entities : \A k \in 1..Len(m_scripts[e].m_scripts) :
           (m_scripts[e].m_scripts[k].m_script # r \/ last'.op = "FAILURE") =>
             InstanceView(m_scripts'[e].m_scripts[k], modules', contexts')
               = InstanceView(m_scripts[e].m_scripts[k], modules, contexts)]_vars

\* the calls the claim has the destructor of the live instance x make, in order
TeardownOf(x) ==
  <<"~ScriptInstance">>
  \o (IF x.m_script # NoPath THEN <<"unbind", "decRefCount">> ELSE <<>>)
  \o (IF x.m_script_context # NullH THEN <<"Release">> ELSE <<>>)
  \o (IF x.m_script_module # NullH THEN <<"Discard">> ELSE <<>>)

RECURSIVE TeardownOfAll(_)
TeardownOfAll(insts) ==
  IF insts = <<>> THEN <<>> ELSE TeardownOf(Head(insts)) \o TeardownOfAll(Tail(insts))

\* C17: the destruction of an instance (by removeScript, and of each instance
\* of a component by destroyScriptComponent, slot by slot) unbinds the observer,
\* releases the resource reference, releases the context and discards the
\* module, in that order, leaving out the first two when the instance is not
\* linked, the third when it has no context and the fourth when it has no
\* module; nothing else is torn down in the step.
C17_TeardownOrder ==
  [][/\ \A e \in Entities, i \in 0..(MaxScripts - 1) :
          RemoveScript(e, i) => last'.teardown = TeardownOf(m_scripts[e].m_scripts[i + 1])
     /\ \A e \in Entities :
          DestroyScriptComponent(e) => last'.teardown = TeardownOfAll(m_scripts[e].m_scripts)]_vars

\* C17 witness: a component of two instances was destroyed, the first linked
\* and with its module, the second linked and without a module.
C17_Witness ==
  /\ last.op = "destroyScriptComponent"
  /\ last.teardown = <<"~ScriptInstance", "unbind", "decRefCount", "Release", "Discard",
                       "~ScriptInstance", "unbind", "decRefCount", "Release">>

IdentityMap == [e \in Entities |-> e]

\* What C18 compares: for every entity, whether it has a script component, and
\* per script, in order, its path, its enabled flag and its properties (name
\* hash, type, stored text) in order.
ScriptsView(w) ==
  [e \in Entities |->
     [exists |-> w.scripts[e].exists,
      scripts |->
        [i \in 1..Len(Slots(w, e)) |->
           [path |-> Slots(w, e)[i].m_script,
            enabled |-> IsScriptEnabled(w, e, i),
            properties |-> Slots(w, e)[i].m_properties]]]]

\* C18: for every reachable state, what serialize writes, read by deserialize
\* under the identity entity map into an empty module, gives every entity the
\* same number of scripts with the same path, enabled flag and ordered
\* properties.
C18_RoundTrip ==
  Running =>
    \E loaded \in {Reloaded(World, IdentityMap)} :
      /\ ~loaded.ub
      /\ loaded.in = <<>>
      /\ ScriptsView(loaded) = ScriptsView(World)

\* C18 witness: a world was loaded that has two scripts, the first one
\* disabled, with a path and two properties, the second enabled without path.
C18_Witness ==
  /\ last.op = "deserialize"
  /\ \E e \in Entities :
       /\ Len(m_scripts[e].m_scripts) = 2
       /\ m_scripts[e].m_scripts[1].m_script # NoPath
       /\ "ENABLED" \notin m_scripts[e].m_scripts[1].m_flags
       /\ Len(m_scripts[e].m_scripts[1].m_properties) = 2
       /\ m_scripts[e].m_scripts[2].m_script = NoPath
       /\ "ENABLED" \in m_scripts[e].m_scripts[2].m_flags

\* C19: for every reachable state and either entity map, deserialize reads
\* what serialize wrote value by value as the kind it was written as, to the
\* end of the stream; every saved component (script or inline) is stored
\* under, and bears as its entity, the entity the map gives for the saved one,
\* and no other is; and the world is told of each restored component once.
C19_ReadMirrorsWrite ==
  Running =>
    \A entity_map \in EntityMaps :
      \E loaded \in {Reloaded(World, entity_map)} :
        /\ ~loaded.ub
        /\ loaded.in = <<>>
        /\ Len(loaded.created) =
             Cardinality({e \in Entities : m_scripts[e].exists})
             + Cardinality({e \in Entities : m_inline_scripts[e].exists})
        /\ \A e \in Entities :
             LET to == entity_map[e]
             IN /\ loaded.scripts[to].exists = m_scripts[e].exists
                /\ loaded.inl[to].exists = m_inline_scripts[e].exists
                /\ Count(loaded.created, <<to, "angelscript">>) =
                     IF m_scripts[e].exists THEN 1 ELSE 0
                /\ Count(loaded.created, <<to, "angelscript_inline">>) =
                     IF m_inline_scripts[e].exists THEN 1 ELSE 0
                /\ m_scripts[e].exists =>
                     /\ loaded.scripts[to].m_entity = to
                     /\ Len(loaded.scripts[to].m_scripts) = Len(m_scripts[e].m_scripts)
                     /\ \A i \in 1..Len(loaded.scripts[to].m_scripts) :
                          loaded.scripts[to].m_scripts[i].m_cmp = to
                /\ m_inline_scripts[e].exists =>
                     /\ loaded.inl[to].m_entity = to
                     /\ loaded.inl[to].m_source = m_inline_scripts[e].m_source

\* C19 witness: a world saved with a script component of two scripts and an
\* inline component with a source on e1 was loaded under the map that sends e1
\* to e2; the stream was read to its end.
C19_Witness ==
  /\ last.op = "deserialize"
  /\ fault = "none"
  /\ last.unread = 0
  /\ last.created = <<<<"e2", "angelscript_inline">>, <<"e2", "angelscript">>>>
  /\ m_scripts["e2"].m_entity = "e2"
  /\ Len(m_scripts["e2"].m_scripts) = 2
  /\ m_inline_scripts["e2"].m_source # NoSource
  /\ Unpopulated("e1")

\* C20: a deserialize of a stream whose version is older than LATEST (no older
\* version is handled anywhere in the function) is rejected: the script
\* components and the inline components are left as they were.
C20_OlderVersionRejected ==
  [][\A entity_map \in EntityMaps, version \in Versions :
       (Deserialize(entity_map, version) /\ version < LATEST) =>
         /\ m_scripts' = m_scripts
         /\ m_inline_scripts' = m_inline_scripts]_vars

\* C21: a slot-addressed operation called with a slot index that is not below
\* the script count of the entity ends in a fatal assertion; here setScriptPath
\* with the index equal to the count.
C21_OutOfRangeIndexAsserts ==
  [][\A e \in Entities, path \in Paths \cup {NoPath} :
       SetScriptPath(e, Len(m_scripts[e].m_scripts), path) => fault' = "assert"]_vars

\* the properties of slot scr_index of e's component
PropsAt(e, scr_index) == m_scripts[e].m_scripts[scr_index + 1].m_properties

\* the properties of a list that bear the hash of name
WithHash(props, name) == {k \in 1..Len(props) : props[k].name_hash = NameHash(name)}

\* every instance holds at most one property per name hash
OnePropertyPerHash ==
  \A x \in Range(Instances), name \in AskedNames :
     Cardinality(WithHash(x.m_properties, name)) <= 1

\* C22 as stated: a setPropertyValue or a getPropertyValue leaves the instance
\* with exactly one property of the name's hash, of type ANY, the list one
\* longer if the name was not present and as long as before if it was; and no
\* instance ever holds two properties of one name hash.
C22_FirstSetOrGetCreatesOne ==
  [][/\ OnePropertyPerHash'
     /\ \A e \in EditEntities, scr_index \in 0..(MaxScripts - 1), name \in PropertyNames :
          (\/ /\ last'.op = "setPropertyValue"
              /\ \E value \in StoredTexts : SetPropertyValue(e, scr_index, name, value)
           \/ /\ last'.op = "getPropertyValue"
              /\ GetPropertyValue(e, scr_index, name))
          => /\ Cardinality(WithHash(PropsAt(e, scr_index)', name)) = 1
             /\ \A k \in WithHash(PropsAt(e, scr_index)', name) :
                  PropsAt(e, scr_index)'[k].type = "ANY"
             /\ Len(PropsAt(e, scr_index)') =
                  Len(PropsAt(e, scr_index))
                    + (IF WithHash(PropsAt(e, scr_index), name) = {} THEN 1 ELSE 0)]_vars

\* C22 amended: a setPropertyValue leaves the instance with exactly one
\* property of the name's hash, of type ANY, created at the end of the list if
\* the name was not present and the list as long as before if it was; a
\* getPropertyValue creates nothing, whether the name is present or not (it
\* changes no script component, and answers the empty string for a name that
\* is not present); and no instance ever holds two properties of one name hash.
C22_SetCreatesOnceGetNever ==
  [][/\ OnePropertyPerHash'
     /\ \A e \in EditEntities, scr_index \in 0..(MaxScripts - 1), name \in PropertyNames :
          /\ (/\ last'.op = "setPropertyValue"
              /\ \E value \in StoredTexts : SetPropertyValue(e, scr_index, name, value))
             => /\ Cardinality(WithHash(PropsAt(e, scr_index)', name)) = 1
                /\ \A k \in WithHash(PropsAt(e, scr_index)', name) :
                     PropsAt(e, scr_index)'[k].type = "ANY"
                /\ IF WithHash(PropsAt(e, scr_index), name) = {}
                     THEN /\ Len(PropsAt(e, scr_index)') = Len(PropsAt(e, scr_index)) + 1
                          /\ WithHash(PropsAt(e, scr_index)', name) =
                               {Len(PropsAt(e, scr_index)')}
                     ELSE Len(PropsAt(e, scr_index)') = Len(PropsAt(e, scr_index))
          /\ (/\ last'.op = "getPropertyValue"
              /\ GetPropertyValue(e, scr_index, name))
             => /\ m_scripts' = m_scripts
                /\ (WithHash(PropsAt(e, scr_index), name) = {} => last'.ret = "")]_vars

\* C22 witness: a component with one script that holds the one property set on
\* it was asked for the value of a name it does not hold, and holds no more.
C22_Witness ==
  /\ last.op = "getPropertyValue"
  /\ last.ret = ""
  /\ \E e \in Entities :
       /\ Len(m_scripts[e].m_scripts) = 1
       /\ Len(PropsAt(e, 0)) = 1
       /\ PropsAt(e, 0)[1].stored_value = "7"
       /\ PropsAt(e, 0)[1].type = "ANY"

\* setPropertyValue(name, value) can be called on slot i of e's component
\* within the bound on the properties of an instance
CanSet(w, e, i, name) ==
  \/ Len(Slots(w, e)[i].m_properties) < MaxProps
  \/ WithHash(Slots(w, e)[i].m_properties, name) # {}

\* C23: in every reachable state (instances unlinked, pending, loaded, failed
\* to load or to build), for every instance, name n and text v: after
\* setPropertyValue(n, v) getPropertyValue(n) yields v, also when another text
\* was set before (the latest set wins); the values of the other names of the
\* instance and every property of the other instances are as before; and a
\* name no property of the instance bears yields the empty string.
C23_PropertyStoreRoundTrip ==
  Running =>
    \A e \in Entities :
      \A i \in 1..Len(m_scripts[e].m_scripts) :
        /\ \A name \in AskedNames :
             WithHash(PropsAt(e, i - 1), name) = {} => PropertyValueOf(World, e, i, name) = ""
        /\ \A name \in PropertyNames, value \in StoredTexts :
             CanSet(World, e, i, name) =>
               \E w \in {StoreValue(World, e, i, name, value)} :
                 /\ ~w.ub
                 /\ PropertyValueOf(w, e, i, name) = value
                 /\ \A other \in AskedNames \ {name} :
                      PropertyValueOf(w, e, i, other) = PropertyValueOf(World, e, i, other)
                 /\ \A j \in 1..Len(m_scripts[e].m_scripts) :
                      j # i => Slots(w, e)[j] = m_scripts[e].m_scripts[j]
                 /\ [w EXCEPT !.scripts = m_scripts, !.h = NullH] = World
                 /\ \A later \in StoredTexts :
                      PropertyValueOf(StoreValue(w, e, i, name, later), e, i, name) = later

\* C23 witness: the value of a name was read back as the text set last on an
\* instance whose script failed to load, next to another instance that holds
\* another text under the same name and to a second property of its own.
C23_Witness ==
  /\ last.op = "getPropertyValue"
  /\ last.ret = "7"
  /\ resources[CallPath].state = "FAILURE"
  /\ \E e \in Entities :
       /\ Len(m_scripts[e].m_scripts) = 2
       /\ m_scripts[e].m_scripts[1].m_script = CallPath
       /\ PropertyValueOf(World, e, 1, "speed") = "7"
       /\ PropertyValueOf(World, e, 1, "target") = "5"
       /\ PropertyValueOf(World, e, 2, "speed") = "5"

\* the property lists of e's component in w, slot by slot
PropsOf(w, e) == [k \in 1..Len(Slots(w, e)) |-> Slots(w, e)[k].m_properties]

\* w has, slot by slot, the property lists e's component has now
SameProps(w, e) == ~w.ub => PropsOf(w, e) = PropsOf(World, e)

\* C24: from every reachable state, each of setScriptPath, a READY (the build
\* succeeding or failing), EMPTY or FAILURE notification, enableScript and
\* execute, when it meets no undefined behaviour, leaves every instance's
\* property list as it was; moveScript exchanges the lists of the two slots
\* with their instances; insertScript gives the new slot no property and the
\* instances from that index on their lists one slot up; removeScript leaves
\* the lists of the instances it keeps, the last instance's in the freed slot.
C24_PropertiesStayWithInstance ==
  Running =>
    \A e \in Entities :
      LET n == Len(m_scripts[e].m_scripts)
          P == PropsOf(World, e)
      IN /\ \A i \in 1..n :
              /\ \A path \in {CallPath, NoPath} : SameProps(SetPath(World, e, i, path), e)
              /\ \A enable \in BOOLEAN : SameProps(EnableOn(World, e, i, enable), e)
              /\ \A code \in ExecuteCodes : SameProps(ExecuteOn(World, e, i, code), e)
              /\ \E w \in {SwapAndPop(World, e, i - 1)} :
                   ~w.ub =>
                     PropsOf(w, e) =
                       [k \in 1..(n - 1) |-> IF k = i THEN P[n] ELSE P[k]]
              /\ \A j \in 1..n :
                   (j = i + 1 \/ j = i - 1) =>
                     \E w \in {SwapSlots(World, e, i, j)} :
                       ~w.ub =>
                         PropsOf(w, e) =
                           [k \in 1..n |-> IF k = i THEN P[j] ELSE IF k = j THEN P[i] ELSE P[k]]
         /\ \A r \in Paths :
              /\ resources[r].state = "READY" => SameProps(BecomesEmpty(World, r), e)
              /\ (resources[r].state = "EMPTY" /\ resources[r].ref_count > 0) =>
                   /\ SameProps(BecomesFailed(World, r), e)
                   /\ \A source \in Sources : SameProps(BecomesReady(World, r, source), e)
         /\ (m_scripts[e].exists /\ n < MaxScripts) =>
              \A idx \in 0..n :
                \E w \in {EmplaceAt(World, e, idx)} :
                  ~w.ub =>
                    PropsOf(w, e) =
                      [k \in 1..(n + 1) |->
                         IF k <= idx THEN P[k] ELSE IF k = idx + 1 THEN <<>> ELSE P[k - 1]]

\* C24 witness: a script was inserted in front of an instance that bears a
\* property and is linked to a loaded script; the instance, now in the second
\* slot, bears it still.
C24_Witness ==
  /\ last.op = "insertScript"
  /\ fault = "none"
  /\ \E e \in Entities :
       /\ Len(m_scripts[e].m_scripts) = 2
       /\ m_scripts[e].m_scripts[1].m_properties = <<>>
       /\ m_scripts[e].m_scripts[2].m_script = CallPath
       /\ "LOADED" \in m_scripts[e].m_scripts[2].m_flags
       /\ PropertyValueOf(World, e, 2, "speed") = "7"

\* C25: in every reachable state an entity has a script component in
\* m_scripts exactly when the world was told that component was created for it
\* and has not been told since that it was destroyed, and an inline component
\* in m_inline_scripts exactly when the same holds of the inline type.
C25_MapMatchesWorld ==
  Running =>
    \A e \in Entities :
      /\ m_scripts[e].exists <=> <<e, "angelscript">> \in world_components
      /\ m_inline_scripts[e].exists <=> <<e, "angelscript_inline">> \in world_components

\* C25 witness: components created for one entity were saved and destroyed,
\* and a deserialize under the exchanging map has restored them for the other
\* entity; the world's record is of that entity only.
C25_Witness ==
  /\ last.op = "deserialize"
  /\ fault = "none"
  /\ m_scripts["e2"].exists
  /\ m_inline_scripts["e2"].exists
  /\ Unpopulated("e1")
  /\ world_components = {<<"e2", "angelscript">>, <<"e2", "angelscript_inline">>}

\* ---- C26
\* the references the dependency lists of all scripts hold on the script of path d
ListedRefs(d) ==
  Count(as_scripts["a.as"].m_dependencies, d) + Count(as_scripts["b.as"].m_dependencies, d)
    + Count(as_scripts["other.as"].m_dependencies, d)

\* every reference on a script is one a user holds or one of a dependency list
RefsAreListed == \A d \in ScriptPaths : as_scripts[d].ref_count = user_refs[d] + ListedRefs(d)

BlobLoaded == last.op = "ASScript::load"

\* C27: for every content s of a source file, ASScript::load of what the asset
\* compiler wrote for s runs to its end and leaves s as source text and the
\* include paths gatherIncludes finds in s, in order, as dependency list.
C27_BlobRoundTrip ==
  BlobLoaded =>
    /\ Running
    /\ as_scripts[CallPath].m_source_code = files[CallPath].data
    /\ \E beyond \in BOOLEAN :
         as_scripts[CallPath].m_dependencies = GatherIncludes(files[CallPath].data, beyond)

\* ---- C28
\* C28: with one ASScript per path, once all references users hold are
\* released, no script of a cycle of includes keeps a reference or stays
\* loaded.
C28_CycleIsReleased ==
  (Running /\ \A p \in ScriptPaths : user_refs[p] = 0) =>
    \A p \in ScriptPaths : as_scripts[p].ref_count = 0 /\ ~as_scripts[p].loaded
\* ---- C29
\* C29: for a reflected component method with n arguments (n >= 1), a call of
\* the registered method on a component runs the trampoline to its end, which
\* passes the entity of the component as reflected argument 0 and the script
\* argument i - 1 as reflected argument i for i in 1..n-1 (reading no script
\* argument at or beyond the n - 1 declared ones).
C29_EntityFirstThenScriptArgs ==
  last.op = "componentMethodClosure" =>
    /\ Running
    /\ Len(invoked.args) = Len(invoked.f)
    /\ invoked.args[1] = [type |-> "ENTITY", v |-> invoked.obj]
    /\ \A i \in 2..Len(invoked.f) :
         invoked.args[i] = [type |-> invoked.f[i], v |-> invoked.script_args[i - 1].v]
\* ---- C30
\* the resource link, the flags and the properties of an instance
Bearing(inst) == <<inst.m_script, inst.m_flags, inst.m_properties>>

\* C30: addScript(entity, -1) appends and returns the previous count;
\* addScript(entity, i) and insertScript(entity, i) with 0 <= i <= count insert
\* at index i (addScript returns i); the count grows by one, the new instance
\* is ENABLED, not LOADED, linked to no resource and without properties, and
\* the instances that were at indices >= i are one index up with resource
\* link, flags and properties unchanged (those below i stay).
C30_InsertShiftsAndAddsFresh ==
  [][\A e \in Entities, scr_index \in (0 - 1)..MaxScripts :
       (/\ last'.op \in {"addScript", "insertScript"}
        /\ fault' = "none"
        /\ \/ AddScript(e, scr_index)
           \/ scr_index >= 0 /\ InsertScript(e, scr_index))
       =>
       LET old == m_scripts[e].m_scripts
           new == m_scripts'[e].m_scripts
           n == Len(old)
           i == IF scr_index = 0 - 1 THEN n ELSE scr_index
       IN /\ Len(new) = n + 1
          /\ last'.op = "addScript" => last'.ret = i
          /\ Bearing(new[i + 1]) = <<NoPath, {"ENABLED"}, <<>>>>
          /\ \A k \in 1..n :
               Bearing(old[k]) = Bearing(new[IF k <= i THEN k ELSE k + 1])]_vars

\* C30 witness: addScript(entity, 0) has put a new instance in front of one
\* that is linked, loaded, disabled and bears a property
C30_Witness ==
  /\ last.op = "addScript"
  /\ last.ret = 0
  /\ fault = "none"
  /\ \E e \in Entities :
       /\ Len(m_scripts[e].m_scripts) = 2
       /\ Bearing(m_scripts[e].m_scripts[1]) = <<NoPath, {"ENABLED"}, <<>>>>
       /\ m_scripts[e].m_scripts[2].m_script = CallPath
       /\ m_scripts[e].m_scripts[2].m_flags = {"LOADED"}
       /\ PropertyValueOf(World, e, 2, "speed") = "7"
ModuleAt(mods, h) == IF h \in Names THEN mods[h] ELSE h
ContextAt(ctxs, c) == IF c \in CtxIds THEN ctxs[c] ELSE c

C33_RestoredNotLoaded ==
  (last.op = "deserialize" /\ Running) =>
    \A e \in Entities :
      \A k \in 1..Len(m_scripts[e].m_scripts) :
        LET inst == m_scripts[e].m_scripts[k]
        IN /\ "MOVED_FROM" \notin inst.m_flags
           /\ "LOADED" \in inst.m_flags =>
                inst.m_script # NoPath /\ resources[inst.m_script].state = "READY"
\* ---- C34
\* C34: over any sequence of addASResource and unloadASResource, a failed
\* load returns the sentinel and changes neither the counter nor the table;
\* a successful one returns the counter plus one, which is at least 1, is not
\* the sentinel, is greater than every handle given out before (the counter
\* never decreases, and no entry has a handle above it) and is added to the
\* table; no other operation changes the counter.
C34_HandlesIncrease ==
  [][/\ \A path \in Paths \cup {NoPath}, type \in ResourceTypes :
          (AddASResource(path, type) /\ fault' = "none") =>
            IF HubLoadOf(type, path) = "nullptr"
              THEN /\ last'.ret = INVALID_HANDLE
                   /\ UNCHANGED <<m_as_resources, m_last_as_resource_idx>>
              ELSE /\ last'.ret = m_last_as_resource_idx + 1
                   /\ last'.ret >= 1
                   /\ last'.ret # INVALID_HANDLE
                   /\ m_last_as_resource_idx' = last'.ret
                   /\ m_as_resources' = m_as_resources \cup {<<last'.ret, path>>}
     /\ m_last_as_resource_idx' >= m_last_as_resource_idx
     /\ \A p \in m_as_resources : p[1] \in 1..m_last_as_resource_idx
     /\ last'.op # "addASResource" => UNCHANGED m_last_as_resource_idx]_vars

\* C34 witness: after the first handle was unloaded, addASResource returned 2
C34_Witness ==
  /\ Running
  /\ last.op = "addASResource"
  /\ last.ret = 2
  /\ m_as_resources = {<<2, "b.as">>}

\* ---- C35
\* the entries of the table that hold a reference on the resource r
EntriesOf(r) == {p \in m_as_resources : p[2] = r}

\* C35: while the system lives, every resource has exactly one reference per
\* entry of the handle table, and none once the system is destroyed;
\* unloadASResource removes the entry of its handle, so that getASResource
\* answers null for it, and changes nothing when the handle has no entry
\* (unknown, unloaded before, or the sentinel).
C35_ReleasedOnce ==
  /\ [](Running =>
          \A r \in Paths :
            resources[r].ref_count =
              IF system = "alive" THEN Cardinality(EntriesOf(r)) ELSE 0)
  /\ [][\A resource \in AskedHandles :
          /\ UnloadASResource(resource) =>
               /\ fault' = "none"
               /\ Find(m_as_resources', resource) = {}
               /\ Find(m_as_resources, resource) = {} =>
                    UNCHANGED <<m_as_resources, m_last_as_resource_idx, resources>>
          /\ GetASResource(resource) =>
               (last'.ret = "nullptr" <=> Find(m_as_resources, resource) = {})]_vars

\* C35 witness: of three resources loaded by handle one was unloaded and the
\* destructor released the two others
C35_Witness ==
  /\ Running
  /\ last.op = "~AngelScriptSystemImpl"
  /\ m_last_as_resource_idx = 3
  /\ last.teardown = <<"decRefCount", "decRefCount">>

\* the entries of m_strings that hold the content c
EntriesFor(c) == {d \in m_strings : d.string = c}

\* the GetStringConstant calls for c less the successful releases on it
Outstanding(c) == string_calls[c].gets - string_calls[c].released

\* C36: the StringFactory holds at most one entry per content, at an address
\* of its own, with a ref_count of at least 1 that equals the number of
\* GetStringConstant calls for the content less the successful
\* ReleaseStringConstant calls on it, and no entry once that number is 0;
\* GetStringConstant answers the address of the living entry of the content;
\* ReleaseStringConstant of an address without entry answers -1 and changes
\* nothing, and answers 0 otherwise.
C36_StringsCounted ==
  /\ [](/\ \A d \in m_strings : d.ref_count >= 1 /\ d.hash = ContentHash(d.string)
        /\ \A d1, d2 \in m_strings : d1.addr = d2.addr => d1 = d2
        /\ \A c \in StringContents :
             /\ Cardinality(EntriesFor(c)) = IF Outstanding(c) = 0 THEN 0 ELSE 1
             /\ \A d \in EntriesFor(c) : d.ref_count = Outstanding(c))
  /\ [][/\ \A c \in StringContents :
             GetStringConstant(c) =>
               /\ last'.ret \in LiveAddrs(EntriesFor(c)')
               /\ \A d \in EntriesFor(c) : last'.ret = d.addr
        /\ \A str \in StringAddrs :
             ReleaseStringConstant(str) =>
               IF str \in LiveAddrs(m_strings)
                 THEN last'.ret = 0
                 ELSE last'.ret = 0 - 1 /\ UNCHANGED factory]_vars

\* C36 witness: a content asked for twice was released twice, by the address
\* both calls answered, and its entry is gone while the other content's lives
C36_Witness ==
  /\ last.op = "ReleaseStringConstant"
  /\ last.ret = 0
  /\ string_calls["alpha"] = [gets |-> 2, released |-> 2]
  /\ EntriesFor("alpha") = {}
  /\ \E d \in EntriesFor("beta") : d.ref_count = 2

\* the slot indices of the beginFunctionCall calls of a trace, in order
RECURSIVE BegunSlots(_)
BegunSlots(calls) ==
  IF calls = <<>> THEN <<>>
  ELSE IF Head(calls)[1] = "beginFunctionCall"
    THEN <<Head(calls)[2]>> \o BegunSlots(Tail(calls))
  ELSE BegunSlots(Tail(calls))

\* every beginFunctionCall that answered a handle is followed at once by an
\* endFunctionCall, and every endFunctionCall follows such a call at once
Paired(calls) ==
  \A k \in 1..Len(calls) :
    IF calls[k][1] = "beginFunctionCall"
      THEN calls[k][3] = "handle" =>
             k < Len(calls) /\ calls[k + 1][1] = "endFunctionCall"
      ELSE /\ k > 1
           /\ calls[k - 1][1] = "beginFunctionCall"
           /\ calls[k - 1][3] = "handle"

\* C37: a pass of onGUI or showGizmo that returns has called beginFunctionCall
\* on the slots 0, 1, ... of the component in order, once each (on none when it
\* returns early), has called endFunctionCall right after each call that
\* answered a handle and after no other, and leaves the builder not in progress.
C37_CallsPaired ==
  [][(last'.op \in {"onGUI", "showGizmo"} /\ fault' = "none") =>
       /\ Paired(editor_calls')
       /\ ~m_function_call'.is_in_progress
       /\ \A e \in EditEntities :
            /\ ShowGizmo("angelscript", e) =>
                 BegunSlots(editor_calls') =
                   [k \in 1..Len(m_scripts[e].m_scripts) |-> k - 1]
            /\ OnGUI(<<e>>, "angelscript", FALSE) =>
                 BegunSlots(editor_calls') =
                   [k \in 1..Len(m_scripts[e].m_scripts) |-> k - 1]
       /\ BegunSlots(editor_calls') = <<>> => UNCHANGED m_function_call]_vars

\* C37 witness: onGUI has passed over two slots with built modules of which
\* only the first defines onGUI
C37_Witness ==
  /\ Running
  /\ last.op = "onGUI"
  /\ editor_calls = <<<<"beginFunctionCall", 0, "handle">>, <<"endFunctionCall">>,
                      <<"beginFunctionCall", 1, "null">>>>
  /\ \A k \in 1..2 : "LOADED" \in m_scripts["e1"].m_scripts[k].m_flags
  /\ ~m_function_call.is_in_progress

\* C38: execute(entity, slot, code) that meets no undefined behaviour answers
\* false and runs nothing when the instance has no module or no context, when
\* the VM does not take the code and when the build fails; answers true and
\* runs nothing when the build succeeds and there is no main(); and otherwise
\* runs main() once and answers whether it ran to its end. It leaves the
\* resource link, the flags and the properties of every instance as they were.
C38_ExecuteAnswers ==
  Running =>
    \A e \in EditEntities :
      \A i \in 1..Len(m_scripts[e].m_scripts), code \in ExecuteInputs :
        \E w \in {ExecuteOn(World, e, i, code)} :
          ~w.ub =>
            LET inst == m_scripts[e].m_scripts[i]
                env == inst.m_script_module # NullH /\ inst.m_script_context # NullH
                builds == env /\ SourceAdds(code) /\ SourceBuilds(code)
                main == builds /\ "main" \in SourceFuncs(code)
            IN /\ w.h = (builds /\ (main => SourceFinishes(code)))
               /\ w.exec = IF main THEN <<<<"main", e, i - 1>>>> ELSE <<>>
               /\ Len(Slots(w, e)) = Len(m_scripts[e].m_scripts)
               /\ \A k \in 1..Len(m_scripts[e].m_scripts) :
                    Bearing(Slots(w, e)[k]) = Bearing(m_scripts[e].m_scripts[k])
               /\ ~env => w.mods = modules /\ w.ctxs = contexts

\* C38 witness: on an enabled slot whose script is loaded and which bears a
\* property, main() was run, did not run to its end, and execute answered false
C38_Witness ==
  /\ Running
  /\ last.op = "execute"
  /\ last.ret = FALSE
  /\ last.exec = <<<<"main", "e1", 0>>>>
  /\ {"LOADED", "ENABLED"} \subseteq m_scripts["e1"].m_scripts[1].m_flags
  /\ Len(m_scripts["e1"].m_scripts[1].m_properties) = 1

\* C39: getPropertyName(entity, slot, index) of a property that
\* setPropertyValue(entity, slot, name, value) created answers that name.
C39_NameOfSetProperty ==
  [][\A e \in EditEntities, idx \in 0..MaxScripts, prop_index \in 0..MaxProps :
       (GetPropertyName(e, idx, prop_index) /\ fault' = "none") =>
         \A name \in PropertyNames :
           m_scripts[e].m_scripts[idx + 1].m_properties[prop_index + 1].name_hash =
             NameHash(name)
           => last'.ret = name]_vars

\* C40: the plugins create has made hold pairwise different modules and
\* contexts, the module of each holds the code of the script the plugin was
\* made from, and destroying them discards and releases each of these once,
\* through no dangling handle.
C40_PluginsOwnTheirModule ==
  /\ fault # "undefined"
  /\ \A i, j \in 1..Len(m_plugins) :
       i # j =>
         /\ m_plugins[i].m_script_module # m_plugins[j].m_script_module
         /\ m_plugins[i].m_script_context # m_plugins[j].m_script_context
  /\ \A i \in 1..Len(m_plugins) :
       plugin_modules[m_plugins[i].m_script_module].code = <<m_plugins[i].m_name>>
====
